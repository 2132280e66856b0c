---------------------------- MODULE DatasetRows ----------------------------
(***************************************************************************)
(* load_environment of src/proof_opd_env.py: which rows of one or two      *)
(* files become the dataset of which environment.  A row of a file is      *)
(*   "whole"     with problem, answer, stage and messages,                 *)
(*   "bare"      a problem without an answer, or messages of no stage,     *)
(*   "unusable"  without any of them,                                      *)
(* and may bring an id of its own.  A row of the dataset is the copy of a  *)
(* row of a file; what names it to the code is its task_id (TaskId below). *)
(* The seeded shuffle that ends a mix is left out: nothing here depends on *)
(* the order.                                                              *)
(***************************************************************************)
EXTENDS Integers, Sequences, FiniteSets

CONSTANTS
  MaxRows,      \* bound: rows of a file
  OwnIds,       \* the ids rows may bring: a number, which may be that of a row, and no
                \* text that looks like the ids made from stages and copies
  Limits,       \* max_examples; 0 is no limit
  Denominator,
  Shares        \* fractions of the second file, of that denominator

ASSUME DatasetAssumption ==
  /\ MaxRows \in Nat /\ Limits \subseteq Nat /\ OwnIds \subseteq Nat
  /\ Denominator \in Nat \ {0} /\ Shares \subseteq 0 .. Denominator

VARIABLES
  dmode,        \* dataset_mode
  files,        \* the rows of the first and the second file
  limit,        \* max_examples
  share,        \* multi_turn_fraction or verifiable_fraction
  loaded,       \* "no", "yes" or "raised"
  dataset       \* the rows

rowsVars == <<dmode, files, limit, share, loaded, dataset>>

Kinds == {"whole", "bare", "unusable"}
Unnamed == -1
Rows == {r \in [kind : Kinds, own : OwnIds \cup {Unnamed}] : r.kind = "unusable" => r.own = Unnamed}
Files == UNION {[1 .. n -> Rows] : n \in 0 .. MaxRows}

DatasetInit ==
  /\ dmode \in {"single", "hybrid", "verifiable", "mixed"}
  /\ files \in Files \X Files
  /\ dmode \in {"single", "verifiable"} => files[2] = <<>>    \* not read
  /\ limit \in Limits
  /\ share \in Shares
  /\ dmode \in {"single", "verifiable"} => share = CHOOSE s \in Shares : TRUE
  /\ loaded = "no" /\ dataset = <<>>

-----------------------------------------------------------------------------
(* The kinds of rows a normalisation can use: with a problem               *)
(* (resolve_column, extract_problem_from_messages) ...                     *)
WithProblem == {"whole", "bare"}

(* ... with an answer as well (normalize_dataset_rows for verifiable       *)
(* tasks, normalize_boxed_training_rows) ...                               *)
WithAnswer == {"whole"}

(* ... with messages of a known stage                                      *)
(* (normalize_single_turn_dataset_rows).                                   *)
WithMessages == {"whole"}

(* The rows of a file that can be used, up to a limit if there is one.     *)
UsableRows(f, kinds) == {i \in DOMAIN files[f] : files[f][i].kind \in kinds}
NthOf(S, k) == CHOOSE i \in S : Cardinality({j \in S : j <= i}) = k

Normalized(f, kinds, max) ==
  LET good == UsableRows(f, kinds)
      taken == IF max > 0 /\ max < Cardinality(good) THEN max ELSE Cardinality(good)
  IN  [k \in 1 .. taken |-> [file |-> f, row |-> NthOf(good, k), copy |-> 0]]

Take_Unnumbered(rows, count) ==
  [i \in 1 .. count |-> rows[((i - 1) % Len(rows)) + 1]]

(* _take_rows and _clone_dataset_row: round robin, a copy has a number.    *)
Take(rows, count) ==
  [i \in 1 .. count |-> [rows[((i - 1) % Len(rows)) + 1] EXCEPT !.copy = (i - 1) \div Len(rows)]]

(* round(): half goes to the even neighbour.                               *)
RoundedShare(n) ==
  LET q == n \div Denominator  r == n % Denominator
  IN  IF 2 * r > Denominator \/ (2 * r = Denominator /\ q % 2 = 1) THEN q + 1 ELSE q

(* How many of n rows come from the second file: its share, at least one   *)
(* if it has any share, at most all.                                       *)
SecondCount(n) ==
  LET c == RoundedShare(n * share)
  IN  IF share > 0 /\ c = 0 /\ n > 0 THEN 1 ELSE IF c > n THEN n ELSE c

(* normalize_hybrid_dataset_rows, normalize_mixed_dataset_rows             *)
Mix(first, second) ==
  LET n == IF limit > 0 THEN limit ELSE Len(first)
  IN  Take(first, n - SecondCount(n)) \o Take(second, SecondCount(n))

(* A normalisation without a usable row raises.                            *)
OrRaise(parts, rows) ==
  IF \E p \in parts : p = <<>>
  THEN loaded' = "raised" /\ UNCHANGED dataset
  ELSE loaded' = "yes" /\ dataset' = rows

LoadSingle ==
  /\ dmode = "single"
  /\ LET rows == Normalized(1, WithMessages, limit) IN OrRaise({rows}, rows)

LoadHybrid ==
  /\ dmode = "hybrid"
  /\ LET first == Normalized(1, WithMessages, 0)
         second == Normalized(2, WithProblem, 0)
     IN  OrRaise({first, second}, Mix(first, second))

LoadVerifiable ==
  /\ dmode = "verifiable"
  /\ LET rows == Normalized(1, WithAnswer, limit) IN OrRaise({rows}, rows)

(* Without a second file the proof rows are cut, not repeated.             *)
LoadMixed ==
  /\ dmode = "mixed"
  /\ LET first == Normalized(1, WithProblem, 0)
         second == Normalized(2, WithAnswer, 0)
     IN  IF files[2] = <<>> \/ share <= 0
         THEN OrRaise({first}, Normalized(1, WithProblem, limit))
         ELSE OrRaise({first, second}, Mix(first, second))

RowsStep ==
  /\ loaded = "no"
  /\ LoadSingle \/ LoadHybrid \/ LoadVerifiable \/ LoadMixed
  /\ UNCHANGED <<dmode, files, limit, share>>

(* The rows of rendered stages: what normalize_single_turn_dataset_rows    *)
(* makes.                                                                  *)
Rendered(f) == dmode = "single" \/ (dmode = "hybrid" /\ f = 1)

Own(r) == files[r.file][r.row].own

(* task_id: of a rendered stage it contains the stage and ends with the    *)
(* row's index, otherwise it is the id the row brought or, without one,    *)
(* its index.  It does not contain the file.  A copy adds its number.      *)
TaskId(r) ==
  [staged |-> Rendered(r.file),
   stem |-> IF Rendered(r.file) \/ Own(r) = Unnamed THEN r.row - 1 ELSE Own(r),
   repeat |-> r.copy]

-----------------------------------------------------------------------------
(* Rows j and k may share a task_id: they come from the two files of a     *)
(* mixed dataset, or are rows of one file of which at least one brought an *)
(* id.                                                                     *)
MayShareId(j, k) ==
  \/ dmode = "mixed" /\ j.file # k.file
  \/ /\ j.file = k.file /\ j.row # k.row /\ ~Rendered(j.file)
     /\ Own(j) # Unnamed \/ Own(k) # Unnamed

(* A mix has the size it was asked for and the share of the second file is *)
(* within half a row of the one that was asked for (or one row, where      *)
(* rounding left none); the rows of a file are repeated evenly             *)
(* (src/proof_opd_env.py:1030-1056).  Two rows of the dataset have         *)
(* different task_ids: the copies of a row, rendered stages among          *)
(* themselves and against generated proofs, and the rows of a file in      *)
(* which none brings an id -- but not the rows of the two files of a mixed *)
(* dataset, whose ids do not contain the file, nor rows of a file where    *)
(* one brings an id that another has or that is the index of another.      *)
MixIsBalanced ==
  loaded = "yes" =>
    LET used(f, i) == Cardinality({k \in DOMAIN dataset : dataset[k].file = f /\ dataset[k].row = i})
        second == Cardinality({k \in DOMAIN dataset : dataset[k].file = 2})
        n == Len(dataset)
    IN
    /\ \A j, k \in DOMAIN dataset :
         j # k /\ TaskId(dataset[j]) = TaskId(dataset[k]) => MayShareId(dataset[j], dataset[k])
    /\ \A k, l \in DOMAIN dataset :
         dataset[k].file = dataset[l].file =>
           used(dataset[k].file, dataset[k].row) <= 1 + used(dataset[l].file, dataset[l].row)
    /\ dmode \in {"hybrid", "mixed"} /\ files[2] # <<>> /\ share > 0 =>
         /\ limit > 0 => n = limit
         /\ \/ 2 * (Denominator * second - n * share) \in -Denominator .. Denominator
            \/ second = 1 /\ 2 * n * share < Denominator
=============================================================================
