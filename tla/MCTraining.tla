----------------------------- MODULE MCTraining -----------------------------
EXTENDS Training

Base ==
  [backend |-> "olmo", upload |-> TRUE, logs |-> FALSE, convert |-> FALSE, keepConverted |-> FALSE,
   keep |-> 2, remoteKeep |-> 1, interval |-> 1, fleeting |-> 0, split |-> FALSE]
MCProfiles ==
  { Base,
    [Base EXCEPT !.convert = TRUE, !.interval = 2],
    [Base EXCEPT !.interval = 2, !.fleeting = 1, !.keep = 1],
    [Base EXCEPT !.upload = FALSE, !.keep = 0],
    [Base EXCEPT !.backend = "verl", !.logs = TRUE],
    [Base EXCEPT !.backend = "prime", !.logs = FALSE, !.upload = FALSE],
    [Base EXCEPT !.backend = "prime", !.upload = FALSE, !.split = TRUE] }
=============================================================================
