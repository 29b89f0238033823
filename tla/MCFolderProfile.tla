-------------------------- MODULE MCFolderProfile --------------------------
(* A small instance of FolderProfile for TLC.                              *)
EXTENDS FolderProfile

Data == INSTANCE FolderCases

MCReading == Data!CaseReading
MCNames == Data!CaseNames
MCCaps == Data!CaseCaps
MCContents == Data!CaseContents
MCDrafts == Data!CaseDrafts
MCTasks == Data!CaseTasks
MCTotals == Data!CaseTotals
MCLimits == Data!CaseLimits
=============================================================================
