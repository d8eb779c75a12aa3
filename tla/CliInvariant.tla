---------------------------- MODULE CliInvariant ----------------------------
(***************************************************************************)
(* The inductive invariant of Cli: that of the session, how far the        *)
(* command can be at each place of the session (Phases), what is left of   *)
(* it when no exception is in flight any more (Quiet), and where a process *)
(* on another card can be (Refusal).                                       *)
(***************************************************************************)
EXTENDS Cli

\* No call has been made.
Untouched == call = NoCall /\ done = 0 /\ result = "none"

\* There is a session for every command but the dry probe, and the command
\* makes no call before the with block is entered.
Phases ==
  /\ pc[Main] = "idle" <=> job = NoJob \/ DryProbe(job)
  /\ pc[Main] \in Process!EnterPc \cup {"idle"} => Untouched
  /\ exc[Main] = "IdentityError" => pc[Main] \in {"leaving", "idle"} /\ Untouched

\* What the cleanup of __exit__ finds when no exception is in flight: it runs
\* once, under the lock, and has the saved contents behind it when it ends.
LastCleanup ==
  /\ block[Main] = "none"
  /\ pc[Main] \in Process!ReleasePc \cup Process!RestorePc => fins[Main] = 1
  /\ pc[Main] \in Process!FinallyPc => fins[Main] = 0 /\ lock = Main
  /\ pc[Main] = "leaving" => hw = saved[Main]

\* With no exception in flight the command has returned before the cleanup.
Quiet ==
  exc[Main] = "none" /\ pc[Main] \in Process!CleanupPc \cup {"leaving"}
    => AtReturn /\ LastCleanup

\* On another card the identity check is as far as a process comes.
Refusal ==
  ~Accepts(card) => /\ pc[Main] \in {"idle", "identity", "leaving"}
                    /\ armed[Main] = 0
                    /\ call = NoCall

\* Everything the steps preserve together.
CliInv == Process!IInv /\ Phases /\ Quiet /\ Refusal

=============================================================================
