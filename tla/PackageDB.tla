----------------------------- MODULE PackageDB -----------------------------
(***************************************************************************)
(* What drop promises about packages, without files or manifests: one      *)
(* package is worked on at a time, an installation only ever moves it      *)
(* forward, a removal only ever moves it back, and nothing skips a stage.  *)
(*                                                                         *)
(*   absent -> leftover -> partial -> installed        (install)           *)
(*   installed -> partial -> absent or leftover        (remove)            *)
(*                                                                         *)
(* leftover: files on disk that no manifest names.  partial: a manifest    *)
(* that does not describe what is on disk.                                 *)
(***************************************************************************)
CONSTANT Pkgs

VARIABLES
  status,   \* of each package
  busy      \* what is being done to which package, <<>> when nothing is

Status == {"absent", "leftover", "partial", "installed"}

TypeOK == /\ status \in [Pkgs -> Status]
          /\ busy \in {<<>>} \cup ({"install", "remove"} \X Pkgs)

Forward == {<<"absent", "leftover">>, <<"leftover", "partial">>,
            <<"partial", "installed">>}
Back == {<<"installed", "partial">>, <<"partial", "absent">>,
         <<"partial", "leftover">>, <<"installed", "leftover">>}

Init == /\ status = [p \in Pkgs |-> "absent"]
        /\ busy = <<>>

\* An installation starts from nothing or from leftovers, a removal from a
\* package that has a manifest.
Begin(o, p) ==
  /\ busy = <<>>
  /\ status[p] \in (IF o = "install" THEN {"absent", "leftover"}
                    ELSE {"partial", "installed"})
  /\ busy' = <<o, p>>
  /\ UNCHANGED status

Work(o, p) ==
  /\ busy = <<o, p>>
  /\ busy' \in {busy, <<>>}
  /\ \E s \in Status :
       /\ <<status[p], s>> \in (IF o = "install" THEN Forward ELSE Back)
       /\ status' = [status EXCEPT ![p] = s]

\* Finished, failed or killed.
End == /\ busy # <<>>
       /\ busy' = <<>>
       /\ UNCHANGED status

Next == \/ \E o \in {"install", "remove"}, p \in Pkgs : Begin(o, p) \/ Work(o, p)
        \/ End

Spec == Init /\ [][Next]_<<status, busy>>
=============================================================================
