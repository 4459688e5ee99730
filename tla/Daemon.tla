------------------------------- MODULE Daemon -------------------------------
(***************************************************************************)
(* syncd --apply, src/src/main.rs: the loop of Syncd whose on_round runs   *)
(* the apply of SshConfig, in the same thread, after a round that pulled   *)
(* something.                                                              *)
(***************************************************************************)
EXTENDS Syncd

CONSTANTS
  Self,       \* the daemon, as the one that applies
  MaxEdits    \* bound on the user's edits of the ssh config

VARIABLES
  file, tmp, a, edits,   \* as in SshConfig
  botched,   \* history: an apply of the daemon has failed
  clash      \* history: the user saved between the read and the rename of an apply

configVars == <<file, tmp, a, edits>>
vars == <<syncdVars, configVars, botched, clash>>

Conf == INSTANCE SshConfig WITH Appliers <- {Self}, Views <- SUBSET (1..MaxEntries)

ASSUME DaemonAssumption == MaxEdits \in Nat

TypeOK ==
  /\ SyncdTypeOK
  /\ Conf!TypeOK
  /\ botched \in BOOLEAN /\ clash \in BOOLEAN

Init ==
  /\ SyncdInit
  /\ Conf!Init
  /\ botched = FALSE /\ clash = FALSE

Applying == a[Self].pc # "idle"

\* on_round: apply what the daemon shows after a round that pulled something.
OnRound ==
  /\ pc = "hook" /\ pulled
  /\ Conf!Apply(Self, mem)
  /\ pulled' = FALSE
  /\ elsewhere' = elsewhere \ mem
  /\ UNCHANGED <<relayVars, local, log, disk, raced, cursor, mem, top, loopVars, botched, clash>>

\* on_round returns, from an apply or without one.
RoundDone ==
  /\ ~pulled /\ ~Applying
  /\ HookDone
  /\ UNCHANGED <<configVars, botched, clash>>

ApplyStep == Conf!Step(Self) /\ UNCHANGED <<syncdVars, botched, clash>>

\* "apply failed": printed, and not tried again before the next pull.
ApplyFails ==
  /\ Conf!Abandon(Self)
  /\ botched' = TRUE
  /\ UNCHANGED <<syncdVars, clash>>

UserEdits ==
  /\ Conf!Edit
  /\ clash' = (clash \/ (Applying /\ a[Self].on = "config"))
  /\ UNCHANGED <<syncdVars, botched>>

DaemonStep == OnRound \/ RoundDone \/ ApplyStep \/ (Loop /\ UNCHANGED <<configVars, botched, clash>>)

Next ==
  \/ DaemonStep
  \/ (Others \/ Trouble) /\ UNCHANGED <<configVars, botched, clash>>
  \/ ApplyFails
  \/ UserEdits

Spec == Init /\ [][Next]_vars

\* The daemon goes on for as long as it runs; ticks come; the user may do nothing.
FairSpec == Spec /\ WF_vars(DaemonStep)

----------------------------------------------------------------------------
(* Properties *)

\* "regenerated atomically", with the daemon the only one to apply: whenever an
\* apply fails, the managed file is absent or one whole rendering.
ManagedIsWhole == Conf!RegeneratedAtomically

\* "without ever touching their hand-written content", "modified exactly once":
\* the user's config has the user's latest text, after at most one Include,
\* unless the user saved between the read and the rename of an apply.
UserTextKept ==
  /\ file["config"].is = "whole"
  /\ file["config"].val.includes <= 1
  /\ clash \/ file["config"].val.user = edits

\* The config that ssh reads has entry n.
Shown(n) ==
  /\ file["managed"].is = "whole" /\ n \in file["managed"].val.shows
  /\ file["config"].val.includes = 1

\* Again and again every entry another device has pushed shows in a config that ssh
\* reads, unless an apply fails or the daemon stops, but for an entry stored between
\* the two statements of a pull, and one that a sync command was the first to pull.
ShownInTheEnd ==
  []<>(\/ botched \/ pc = "stopped"
       \/ \A n \in remote \ (raced \cup elsewhere) : Shown(n))
=============================================================================
