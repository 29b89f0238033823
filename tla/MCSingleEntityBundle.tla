------------------------ MODULE MCSingleEntityBundle ------------------------
(* Small instances of SingleEntityBundle for TLC.                          *)
EXTENDS SingleEntityBundle

CONSTANTS data, spec, manifest, report

\* data.csv, dataset_spec.yaml, generation_manifest.json, validation_report.json
Files == <<data, spec, manifest, report>>
=============================================================================
