------------------------------ MODULE SshConfig ------------------------------
(***************************************************************************)
(* sshvault apply, src/src/sshconfig.rs: the managed file sshvault.conf is *)
(* rewritten and the user's ssh config is made to include it, while the    *)
(* user edits that config, by the daemon (syncd --apply) or by a command,  *)
(* any of which may die part way.                                          *)
(*                                                                         *)
(* atomic_write uses one temporary name per target, so that two writers    *)
(* share the temporary file; an open file stays open when its name is      *)
(* moved.  Of a file's text only the vault state it renders, or the user's *)
(* version and the number of Include lines before it, is kept.             *)
(***************************************************************************)
EXTENDS Integers

CONSTANTS
  Appliers,   \* processes that may run apply
  Views,      \* what a process may show of the vault: sets of entries
  MaxEdits    \* bound on the user's edits of the config

VARIABLES
  file,    \* file[f]: what f's name has on disk
  tmp,     \* tmp[f]: what the temporary name of f has on disk
  a,       \* a[p]: the apply that p has under way
  edits    \* the user's edits so far

vars == <<file, tmp, a, edits>>

Files == {"managed", "config"}

NoFile == [is |-> "none"]
Empty == [is |-> "empty"]
Mixed == [is |-> "mixed"]                      \* parts of two texts
Whole(v) == [is |-> "whole", val |-> v]

Rendered(w) == [shows |-> w]                   \* sshvault.conf
Config(u, i) == [user |-> u, includes |-> i]   \* ssh config

\* An apply: the next step of it, the file it writes, what it writes, and where
\* the file it has open is now: still under the temporary name, under the name
\* proper, or nowhere.
Idle == [pc |-> "idle", on |-> "managed", text |-> Rendered({}), fd |-> "nowhere"]

Init ==
  /\ file = [managed |-> NoFile, config |-> Whole(Config(0, 0))]
  /\ tmp = [f \in Files |-> NoFile]
  /\ a = [p \in Appliers |-> Idle]
  /\ edits = 0

Texts == [shows : Views] \cup [user : 0..MaxEdits, includes : Nat]
Contents == {NoFile, Empty, Mixed} \cup [is : {"whole"}, val : Texts]

TypeOK ==
  /\ file \in [Files -> Contents]
  /\ tmp \in [Files -> Contents]
  /\ a \in [Appliers -> [pc : {"idle", "create", "write", "rename", "include"},
                         on : Files, text : Texts,
                         fd : {"tmp", "name", "nowhere"}]]
  /\ edits \in 0..MaxEdits

----------------------------------------------------------------------------
(* apply *)

\* apply renders what its process shows of the vault and goes on to write it.
Apply(p, w) ==
  /\ a[p].pc = "idle"
  /\ a' = [a EXCEPT ![p] = [Idle EXCEPT !.pc = "create", !.text = Rendered(w)]]
  /\ UNCHANGED <<file, tmp, edits>>

\* Mutant: the file itself is opened and truncated.
CreateTmp_inplace(p) ==
  /\ a[p].pc = "create"
  /\ tmp' = [tmp EXCEPT ![a[p].on] = Empty]
  /\ file' = [file EXCEPT ![a[p].on] = Empty]
  /\ a' = [a EXCEPT ![p].pc = "write", ![p].fd = "tmp"]
  /\ UNCHANGED edits

\* atomic_write, File::create: a new temporary file, or the one there truncated.
CreateTmp(p) ==
  /\ a[p].pc = "create"
  /\ tmp' = [tmp EXCEPT ![a[p].on] = Empty]
  /\ a' = [a EXCEPT ![p].pc = "write", ![p].fd = "tmp"]
  /\ UNCHANGED <<file, edits>>

\* What a text written from the start of a file leaves of one already there.
Over(c, v) == IF c \in {Empty, Whole(v)} THEN {Whole(v)} ELSE {Whole(v), Mixed}

\* atomic_write, write_all: into the open file, wherever its name is now.
WriteTmp(p) ==
  LET f == a[p].on
      now == IF a[p].fd = "name" THEN file[f] ELSE tmp[f]
  IN /\ a[p].pc = "write"
     /\ \E c \in Over(now, a[p].text) :
          /\ tmp' = IF a[p].fd = "tmp" THEN [tmp EXCEPT ![f] = c] ELSE tmp
          /\ file' = IF a[p].fd = "name" THEN [file EXCEPT ![f] = c] ELSE file
     /\ a' = [a EXCEPT ![p].pc = "rename"]
     /\ UNCHANGED edits

\* Where q's open file is once f's temporary file has been moved to f.
Moved(q, f) ==
  IF a[q].on # f THEN a[q].fd
  ELSE IF a[q].fd = "tmp" THEN "name" ELSE "nowhere"

\* atomic_write, rename; after the managed file comes the user's config.
Rename(p) ==
  LET f == a[p].on
      next == IF f = "managed" THEN "include" ELSE "idle"
  IN /\ a[p].pc = "rename"
     /\ tmp[f] # NoFile
     /\ file' = [file EXCEPT ![f] = tmp[f]]
     /\ tmp' = [tmp EXCEPT ![f] = NoFile]
     /\ a' = [q \in Appliers |->
                IF q = p THEN [a[p] EXCEPT !.pc = next, !.fd = "nowhere"]
                ELSE [a[q] EXCEPT !.fd = Moved(q, f)]]
     /\ UNCHANGED edits

\* Another writer has moved the temporary file away: an error.
RenameFails(p) ==
  /\ a[p].pc = "rename"
  /\ tmp[a[p].on] = NoFile
  /\ a' = [a EXCEPT ![p] = Idle]
  /\ UNCHANGED <<file, tmp, edits>>

\* What fs::read gives of the config; of a mixed text anything may be missing.
Reads(c) == IF c.is = "whole" THEN c.val ELSE Config(0, 0)

\* Mutant: the Include is prepended at every apply.
NeedsInclude_always(r) == TRUE

\* ensure_include: no line of the text read includes the managed file.
NeedsInclude(r) == r.includes = 0

\* ensure_include: nothing to do, or the text read with the Include before it.
EnsureInclude(p) ==
  LET r == Reads(file["config"])
  IN /\ a[p].pc = "include"
     /\ a' = [a EXCEPT ![p] =
                IF NeedsInclude(r)
                THEN [Idle EXCEPT !.pc = "create", !.on = "config",
                                  !.text = Config(r.user, r.includes + 1)]
                ELSE Idle]
     /\ UNCHANGED <<file, tmp, edits>>

\* A step fails, or the process dies: whatever is on disk stays.
Abandon(p) ==
  /\ a[p].pc # "idle"
  /\ a' = [a EXCEPT ![p] = Idle]
  /\ UNCHANGED <<file, tmp, edits>>

\* The user's editor saves a new version of the config, under a new file.
Edit ==
  /\ edits < MaxEdits
  /\ file["config"].is = "whole"
  /\ edits' = edits + 1
  /\ file' = [file EXCEPT !["config"] = Whole(Config(edits + 1, file["config"].val.includes))]
  /\ a' = [q \in Appliers |->
             IF a[q].on = "config" /\ a[q].fd = "name" THEN [a[q] EXCEPT !.fd = "nowhere"]
             ELSE a[q]]
  /\ UNCHANGED tmp

Step(p) == CreateTmp(p) \/ WriteTmp(p) \/ Rename(p) \/ EnsureInclude(p)

Next ==
  \/ \E p \in Appliers :
       \/ \E w \in Views : Apply(p, w)
       \/ Step(p) \/ RenameFails(p) \/ Abandon(p)
  \/ Edit

Spec == Init /\ [][Next]_vars

----------------------------------------------------------------------------
(* Properties *)

\* "sshvault.conf is fully owned by us and regenerated atomically": whatever an
\* apply leaves behind, the managed file, once there, is one whole rendering.
RegeneratedAtomically == file["managed"].is \in {"none", "whole"}
=============================================================================
