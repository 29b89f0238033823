CONSTANTS
    p1 = p1
    p2 = p2
    s1 = s1
    s2 = s2
    s3 = s3
    c1 = c1
    c2 = c2
    None = None
    Proc = {p1}
    Specs = {s1, s2, s3}
    Sources = {c1, c2}
    Approvable = {s1, s2}
    Safe = {s1, s3}
    Kinds = {"csv"}
    Commands = {"plan", "advise", "apply", "approve", "recover"}
    Stops = {"exception", "cancel", "kill"}
SPECIFICATION FairSpec
PROPERTIES
    OnlyRecordedAdvice
    RecoveryCompletes
    AdviceResumes
