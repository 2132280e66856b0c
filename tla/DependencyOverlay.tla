------------------------- MODULE DependencyOverlay -------------------------
(***************************************************************************)
(* What the coordinator does between "installing" and "ready": the packages *)
(* its back-end needs go into an overlay directory that shadows the image.  *)
(* The overlay belongs to a coordination id and survives a launch that was  *)
(* killed, so that the next one finds it in any state.                      *)
(*                                                                         *)
(* pip --target copies a package directory by directory: one that is killed *)
(* or fails then leaves the package "cut".  With --upgrade (install_python_ *)
(* target) it is replaced, without (install_python_requirements) a directory*)
(* that exists is left as it is.  A resolution of dependencies also copies  *)
(* the image's own stack (torch), which is removed after the installation.  *)
(***************************************************************************)
EXTENDS Naturals, Sequences

CONSTANTS
  Needs,         \* what the command line asks of the runtime (Need)
  Images,        \* the modules an image can already import
  MaxInstalls,   \* bound: launches with one coordination id
  MaxBreaks,     \* bound: failures and kills
  Attempts       \* RUNTIME_DEPENDENCY_RETRY_ATTEMPTS

VARIABLES
  need,      \* the options of the launches that share the overlay
  image,     \* the modules of the image that can be imported
  over,      \* over[p]: the overlay's copy of package p
  deps,      \* the Prime-RL submodules: "absent", "cut", "whole"
  queue,     \* the steps that are left of the installation
  tries,     \* attempts of the first of them that failed
  result,    \* "idle", "running", "failed", "ready"
  installs, breaks,
  wasCut,    \* a copy was cut short, in this launch or an earlier one
  kept       \* a removal from the overlay was refused by the file system

overlayVars == <<need, image, over, deps, queue, tries, result, installs, breaks, wasCut, kept>>

Upgrading == {"apex", "te", "megatron", "liger", "vllm"}
Requirements == {"nccl", "grpo", "automodel", "runtime", "build", "configs", "environments", "sources"}
Packages == Upgrading \cup Requirements \cup {"torch"}
Protected == {"torch", "te", "nccl"}

Need == [backend : {"sft", "grpo", "verl", "prime"},
         te : BOOLEAN,         \* an option that uses Transformer Engine
         resolve : BOOLEAN,    \* GRPO_RUNTIME_PIP_NO_DEPS = 0
         override : BOOLEAN,   \* a vLLM wheel is configured
         bindings : BOOLEAN,   \* the image has TE's torch bindings
         wheel : BOOLEAN,      \* --transformer-engine-wheel-file
         teacher : BOOLEAN]    \* Prime-RL's teacher inference
ASSUME NeedsAssumption == Needs \subseteq Need

Is(b) == need.backend = b
UsesTE == need.te \/ Is("verl")

(* The base stack is left to the image when Prime-RL is all there is.       *)
Skips == Is("prime")
UsesBase == ~Is("prime") \/ UsesTE

When(condition, steps) == IF condition THEN steps ELSE <<>>

PrimeSteps ==
  When(need.override, <<"vllm">>)
  \o <<"runtime", "submodules", "build", "configs", "environments", "sources", "nvidia">>
  \o When(need.override, <<"checkPin">>) \o When(need.teacher, <<"checkTilelang">>)
  \o When(UsesTE, <<"checkTE">>)

InstallSteps ==
  When(Is("verl") \/ Is("prime") \/ UsesTE, <<"nvidia">>)
  \o When(Is("verl"), <<"nccl">>)
  \o When(Is("grpo"), <<"peft">>)
  \o When(UsesBase /\ ~Skips, <<"apex">>)
  \o When(UsesTE, <<"te">>)
  \o When(UsesBase, <<"megatron">>)
  \o When(UsesBase /\ ~Skips, <<"liger">>)
  \o When(UsesBase /\ ~Is("grpo"), <<"checkBase">>)
  \o When(Is("grpo"), <<"grpo">> \o When(need.override, <<"vllm">>) \o <<"checkGrpo">>)
  \o When(Is("verl"), <<"automodel">>)
  \o When(Is("prime"), PrimeSteps)

(* The overlay comes first on every path: its copy hides the image's.       *)
ImportsWith(ov, p) == IF ov[p] = "none" THEN p \in image ELSE ov[p] = "whole"
Imports(p) == ImportsWith(over, p)

GrpoImports(ov) == ImportsWith(ov, "grpo") /\ ImportsWith(ov, "vllm")
BaseModules == IF Skips THEN {"megatron"} ELSE {"apex", "megatron", "liger"}

(* A package whose import already works is not installed.                   *)
SkippedIfImportable == {"apex", "te", "megatron", "liger", "automodel", "grpo"}
HasIt(s) == IF s = "grpo" THEN GrpoImports(over)
            ELSE IF s = "nccl" THEN over[s] = "whole"
            ELSE s \in SkippedIfImportable /\ Imports(s)

Resolves(s) ==
  \/ s \in {"runtime", "build", "environments"}
  \/ s \in {"grpo", "automodel"} /\ need.resolve

(* The core package alone makes Transformer Engine work only if the image   *)
(* has the bindings; otherwise its wheel is installed as well.              *)
Copied(s) == IF s = "te" /\ ~need.bindings /\ ~need.wheel THEN "cut" ELSE "whole"

Place(s) ==
  IF s \notin Packages THEN over
  ELSE IF s \in Upgrading \/ over[s] = "none" THEN [over EXCEPT ![s] = Copied(s)]
  ELSE over

WithoutProtected(ov) == [p \in Packages |-> IF p \in Protected THEN "none" ELSE ov[p]]

(* The overlay after step s.                                                *)
Settled(s) == IF Resolves(s) THEN WithoutProtected(Place(s)) ELSE Place(s)

-----------------------------------------------------------------------------
OverlayInit ==
  /\ need \in Needs /\ image \in Images
  /\ over = [p \in Packages |-> "none"]
  /\ deps = "absent" /\ queue = <<>> /\ tries = 0 /\ result = "idle"
  /\ installs = 0 /\ breaks = 0 /\ wasCut = FALSE /\ kept = FALSE

Running(s) == result = "running" /\ queue # <<>> /\ Head(queue) = s
Proceed == queue' = Tail(queue) /\ tries' = 0
Raise == result' = "failed" /\ queue' = <<>> /\ tries' = 0
Break == breaks < MaxBreaks /\ breaks' = breaks + 1
Same == UNCHANGED <<need, image, installs>>

BeginOverlay ==
  /\ result = "idle" /\ installs < MaxInstalls
  /\ result' = "running" /\ installs' = installs + 1
  /\ queue' = InstallSteps /\ tries' = 0
  /\ UNCHANGED <<need, image, over, deps, breaks, wasCut, kept>>

Installing == {"nvidia", "peft"} \cup (Packages \ {"torch"})

PassOver(s) ==
  /\ Running(s) /\ HasIt(s)
  /\ Proceed
  /\ UNCHANGED <<over, deps, result, breaks, wasCut, kept>> /\ Same

(* What was installed is looked at, in these two cases, and has to work.    *)
Conclude(s) ==
  IF \/ s = "te" /\ Copied(s) # "whole"
     \/ s = "automodel" /\ ~ImportsWith(over', s)
  THEN Raise ELSE Proceed /\ result' = result

(* The vLLM a user asked for may turn out not to fit the image.             *)
Install(s) ==
  /\ Running(s) /\ s \in Installing /\ ~HasIt(s)
  /\ \/ over' = Settled(s)
     \/ s = "vllm" /\ over' = [Settled(s) EXCEPT ![s] = "unfit"]
  /\ Conclude(s)
  /\ UNCHANGED <<deps, breaks, wasCut, kept>> /\ Same

(* A removal that the file system refuses is only logged.                   *)
InstallKeeps(s) ==
  /\ Running(s) /\ s \in Installing /\ ~HasIt(s) /\ Resolves(s)
  /\ Break
  /\ over' = [Settled(s) EXCEPT !["torch"] = "whole"]
  /\ kept' = TRUE
  /\ Conclude(s)
  /\ UNCHANGED <<deps, wasCut>> /\ Same

CopyIsCut(s) ==
  \/ UNCHANGED <<over, wasCut>>
  \/ /\ s \in Packages /\ wasCut' = TRUE
     /\ \E torch \in {over["torch"]} \cup (IF Resolves(s) THEN {"whole"} ELSE {}) :
          over' = [over EXCEPT ![s] = IF s \in Upgrading \/ over[s] = "none" THEN "cut" ELSE over[s],
                               !["torch"] = torch]

Optional(s) == Is("grpo") /\ s \in {"apex", "megatron", "liger"}
LastTry(s) == tries + 1 >= Attempts \/ s = "peft"

(* pip, git or the download of a wheel fails: again, until the attempts are *)
(* used up; then the installation has failed, unless it can do without.     *)
InstallFails(s) ==
  /\ Running(s) /\ s \in Installing /\ ~HasIt(s)
  /\ Break
  /\ CopyIsCut(s)
  /\ \/ ~LastTry(s) /\ tries' = tries + 1 /\ UNCHANGED <<queue, result>>
     \/ LastTry(s) /\ Optional(s) /\ Proceed /\ result' = result
     \/ LastTry(s) /\ ~Optional(s) /\ Raise
  /\ UNCHANGED <<deps, kept>> /\ Same

(* Submodules that lack their install marker are reset and fetched again.   *)
Submodules ==
  /\ Running("submodules")
  /\ \/ deps' = "whole" /\ Proceed /\ UNCHANGED <<result, breaks>>
     \/ /\ Break
        /\ IF tries + 1 < Attempts
           THEN deps' = "absent" /\ tries' = tries + 1 /\ UNCHANGED <<queue, result>>
           ELSE deps' = "cut" /\ Raise
  /\ UNCHANGED <<over, wasCut, kept>> /\ Same

Check(s, holds) ==
  /\ Running(s)
  /\ IF holds THEN Proceed /\ result' = result ELSE Raise
  /\ UNCHANGED <<over, deps, breaks, wasCut, kept>> /\ Same

(* Only the version is compared: a vLLM that does not fit passes.           *)
CheckPin == Check("checkPin", over["vllm"] \in {"whole", "unfit"})
CheckBase == Check("checkBase", \A m \in BaseModules : Imports(m))
CheckTilelang == Check("checkTilelang", Imports("vllm") /\ Imports("runtime"))
CheckTE == Check("checkTE", Imports("te"))

WithoutOverride == [over EXCEPT !["vllm"] = "none"]

(* Mutant: the override is removed, but nobody looks whether that helped.   *)
CheckGrpo_Trusts ==
  /\ Running("checkGrpo")
  /\ IF GrpoImports(over) THEN Proceed /\ UNCHANGED <<over, result>>
     ELSE IF need.override THEN over' = WithoutOverride /\ Proceed /\ result' = result
     ELSE Raise /\ over' = over
  /\ UNCHANGED <<deps, breaks, wasCut, kept>> /\ Same

(* GRPO that cannot be imported with the vLLM the user asked for gets the   *)
(* image's one back, and has to be importable with that.                    *)
CheckGrpo ==
  /\ Running("checkGrpo")
  /\ IF GrpoImports(over) THEN Proceed /\ UNCHANGED <<over, result>>
     ELSE IF need.override
          THEN /\ over' = WithoutOverride
               /\ IF GrpoImports(over') THEN Proceed /\ result' = result ELSE Raise
          ELSE Raise /\ over' = over
  /\ UNCHANGED <<deps, breaks, wasCut, kept>> /\ Same

FinishOverlay ==
  /\ result = "running" /\ queue = <<>>
  /\ result' = "ready"
  /\ UNCHANGED <<over, deps, queue, tries, breaks, wasCut, kept>> /\ Same

(* The process is killed in the middle of whatever it does.                 *)
KillInstall ==
  /\ result = "running" /\ Break
  /\ result' = "failed" /\ queue' = <<>> /\ tries' = 0
  /\ IF queue # <<>> /\ Head(queue) \in Installing /\ ~HasIt(Head(queue))
     THEN CopyIsCut(Head(queue)) ELSE UNCHANGED <<over, wasCut>>
  /\ UNCHANGED <<deps, kept>> /\ Same

LaunchAgain ==
  /\ result \in {"failed", "ready"} /\ installs < MaxInstalls
  /\ result' = "idle"
  /\ UNCHANGED <<over, deps, queue, tries, breaks, wasCut, kept>> /\ Same

OverlayStep ==
  \/ BeginOverlay \/ FinishOverlay \/ KillInstall \/ LaunchAgain
  \/ \E s \in Installing : PassOver(s) \/ Install(s) \/ InstallKeeps(s) \/ InstallFails(s)
  \/ Submodules \/ CheckBase \/ CheckGrpo \/ CheckPin \/ CheckTilelang \/ CheckTE

-----------------------------------------------------------------------------
(* What the training imports.  Transformer Engine is looked at once more    *)
(* after the packages of Prime-RL, but not after those of GRPO and VERL,    *)
(* whose resolution of dependencies may have removed it again.              *)
Imported ==
  (IF Is("grpo") THEN {"grpo", "vllm"} ELSE IF UsesBase THEN BaseModules ELSE {})
  \cup (IF Is("verl") THEN {"automodel"} ELSE {})
  \cup (IF Is("prime") /\ need.teacher THEN {"runtime", "vllm"} ELSE {})
  \cup (IF Is("prime") /\ ~wasCut THEN {"runtime", "build", "configs", "sources"} ELSE {})
  \cup (IF UsesTE /\ (Is("prime") \/ ~need.resolve) THEN {"te"} ELSE {})

(* A runtime that is announced as ready can be used: what the back-end      *)
(* needs can be imported, whatever earlier launches left in the overlay --  *)
(* except packages of Prime-RL that were cut short and that nobody imports  *)
(* before training -- and no copy of torch hides the image's, unless it     *)
(* could not be removed or was left by a copy that was cut short.           *)
InstalledIsUsable ==
  result = "ready" =>
    /\ \A m \in Imported : Imports(m)
    /\ (Is("prime") \/ ~wasCut) /\ ~kept => over["torch"] = "none"
=============================================================================
