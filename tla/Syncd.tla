-------------------------------- MODULE Syncd --------------------------------
(***************************************************************************)
(* The daemon loop of src/src/sync.rs (syncd, round, transient) against    *)
(* the change notifications of src/src/relay.rs (ws, notify).              *)
(*                                                                         *)
(* Entries are their sequence numbers at the relay.  A round is a push and *)
(* a pull, whose rows and head the relay reads in two statements; the keys *)
(* and the shares of a round are those of RelaySync.  The daemon works on  *)
(* what it has in memory, read anew from the vault directory before every  *)
(* round; a sync command on the same device works on that directory, too.  *)
(* Time is left out: a tick may come whenever the loop waits, and a        *)
(* connection has held for long or not.                                    *)
(***************************************************************************)
EXTENDS Integers, Sequences

CONSTANTS
  MaxEntries,   \* bound on the entries of the vault
  MaxFails,     \* bound on failed rounds
  Capacity,     \* notifications the relay keeps for one connection
  MaxBackoff    \* the longest delay before a reconnect

ASSUME SyncdAssumption ==
  /\ MaxEntries \in Nat /\ MaxFails \in Nat
  /\ Capacity \in Nat \ {0} /\ MaxBackoff \in Nat \ {0}

VARIABLES
  \* relay
  head,      \* last sequence number
  remote,    \* entries other devices pushed
  untold,    \* those of them not yet announced
  sock,      \* the daemon's WebSocket at the relay
  mail,      \* heads announced on it and not yet read
  \* this device
  local,     \* entries in log.bin the relay does not have
  log,       \* entries of other devices in log.bin
  disk,      \* sync_cursor in meta.json
  cursor,    \* the daemon's copy of it
  mem,       \* entries of other devices in the daemon's state, during a round
  pc,        \* where the daemon is
  top,       \* head when the relay read the rows of the pull under way, or 0
  outer,     \* no round is under way, or the one before a connect
  pulled,    \* the round under way has pulled something
  backoff,   \* backoff_secs
  held,      \* the connection has been up for HEALTHY_CONN
  \* bounds and history
  fails,     \* failed rounds so far
  excused,   \* while connected: head at the connect, or at the last round that failed
  raced,     \* entries stored between the rows and the head of a pull
  elsewhere, \* entries a sync command was the first to pull, not applied since
  flaps      \* connects that failed or did not hold, since one that held

relayVars == <<head, remote, untold, sock, mail>>
vaultVars == <<local, log, disk, raced, elsewhere>>
roundVars == <<cursor, mem, top, pulled>>
loopVars == <<pc, outer, backoff, held, fails, excused, flaps>>
syncdVars == <<relayVars, vaultVars, roundVars, loopVars>>

SyncdTypeOK ==
  /\ head \in 0..MaxEntries
  /\ remote \subseteq 1..head
  /\ untold \subseteq remote
  /\ sock \in {"none", "up", "closed"}
  /\ mail \in Seq(1..MaxEntries) /\ Len(mail) <= Capacity
  /\ local \in 0..MaxEntries
  /\ log \subseteq remote /\ mem \subseteq log
  /\ disk \in 0..head /\ cursor \in 0..disk
  /\ top \in 0..head
  /\ raced \subseteq remote /\ elsewhere \subseteq log
  /\ pc \in {"push", "pull", "head", "hook", "connect", "wait", "sleep", "stopped"}
  /\ outer \in BOOLEAN /\ pulled \in BOOLEAN /\ held \in BOOLEAN
  /\ backoff \in 1..MaxBackoff
  /\ fails \in 0..MaxFails
  /\ excused \in 0..head
  /\ flaps \in 0..(MaxBackoff - 1)

SyncdInit ==
  /\ head = 0 /\ remote = {} /\ untold = {}
  /\ sock = "none" /\ mail = <<>>
  /\ local = 0 /\ log = {} /\ disk = 0 /\ cursor = 0 /\ mem = {} /\ top = 0
  /\ raced = {} /\ elsewhere = {}
  /\ pc = "push" /\ outer = TRUE /\ pulled = FALSE
  /\ backoff = 1 /\ held = FALSE
  /\ fails = 0 /\ excused = 0 /\ flaps = 0

----------------------------------------------------------------------------
(* Helpers *)

MinOf(x, y) == IF x < y THEN x ELSE y

\* Entries of other devices from after sequence number i on, up to j.
Between(i, j) == {n \in remote : i < n /\ n <= j}

\* The socket is closed; of what was not sent yet any part is lost.
Breaks ==
  /\ sock' = "closed" /\ excused' = 0
  /\ \E k \in 0..Len(mail) : mail' = SubSeq(mail, 1, k)

\* notify: the head n is announced on the socket.  One message too many makes
\* the relay's receiver lag, and the relay closes the socket.
Announce(n) ==
  IF sock # "up" THEN UNCHANGED <<sock, mail, excused>>
  ELSE IF Len(mail) < Capacity THEN mail' = Append(mail, n) /\ UNCHANGED <<sock, excused>>
  ELSE Breaks

\* Where a round returns to.
AfterRound ==
  /\ pc' = IF outer THEN "connect" ELSE "wait"
  /\ outer' = TRUE
  /\ mem' = {} /\ top' = 0 /\ pulled' = FALSE

----------------------------------------------------------------------------
(* Other devices and processes *)

\* Another device's push is stored ...
RemotePush ==
  /\ head + local < MaxEntries
  /\ head' = head + 1
  /\ remote' = remote \cup {head + 1}
  /\ untold' = untold \cup {head + 1}
  /\ UNCHANGED <<sock, mail, vaultVars, roundVars, loopVars>>

\* ... and announced, with a head that was read in between.
Notify ==
  \E n \in untold : \E k \in n..head :
    /\ untold' = untold \ {n}
    /\ Announce(k)
    /\ UNCHANGED <<head, remote, vaultVars, roundVars, pc, outer, backoff, held, fails, flaps>>

\* A command on this device appends to log.bin.
LocalAppend ==
  /\ head + local < MaxEntries
  /\ local' = local + 1
  /\ UNCHANGED <<relayVars, log, disk, raced, elsewhere, roundVars, loopVars>>

\* sync, another process's round: it pushes what the relay lacks and pulls the
\* rest, the rows having been read when the relay's head was k.  It applies
\* nothing.
OtherSync ==
  \E k \in disk..head :
    /\ head' = head + local /\ local' = 0
    /\ IF local > 0 THEN Announce(head + local) ELSE UNCHANGED <<sock, mail, excused>>
    /\ log' = log \cup Between(disk, k)
    /\ disk' = head'
    /\ raced' = raced \cup Between(k, head)
    /\ elsewhere' = elsewhere \cup (Between(disk, k) \ log)
    /\ UNCHANGED <<remote, untold, roundVars, pc, outer, backoff, held, fails, flaps>>

\* The connection breaks, or the relay restarts.
Drop ==
  /\ sock = "up"
  /\ Breaks
  /\ UNCHANGED <<head, remote, untold, vaultVars, roundVars, pc, outer, backoff, held, fails,
                 flaps>>

\* HEALTHY_CONN has passed since the connect; the daemon has not found the
\* connection closed yet.
Hold ==
  /\ sock # "none" /\ ~held
  /\ held' = TRUE
  /\ UNCHANGED <<relayVars, vaultVars, roundVars, pc, outer, backoff, fails, excused, flaps>>

----------------------------------------------------------------------------
(* A round *)

\* reload, then the push of everything the relay lacks, announced to us too.
Push ==
  /\ pc = "push"
  /\ head' = head + local
  /\ local' = 0
  /\ IF local > 0 THEN Announce(head + local) ELSE UNCHANGED <<sock, mail, excused>>
  /\ cursor' = disk /\ mem' = log
  /\ pc' = "pull"
  /\ UNCHANGED <<remote, untold, log, disk, raced, elsewhere, top, pulled,
                 outer, backoff, held, fails, flaps>>

\* pull: the relay reads the rows past the cursor ...
PullRows ==
  /\ pc = "pull"
  /\ top' = head
  /\ pc' = "head"
  /\ UNCHANGED <<relayVars, vaultVars, cursor, mem, pulled,
                 outer, backoff, held, fails, excused, flaps>>

\* Mutant: only what a message or a tick brought in counts.
Pulls_inner == ~outer /\ Between(cursor, top) \ mem # {}

\* The answer has an entry the log lacked when it was pushed: pulled > 0.
Pulls == Between(cursor, top) \ mem # {}

\* ... then the head; the rows are merged and the cursor is set to the head.
\* on_round comes next.
PullHead ==
  /\ pc = "head"
  /\ pulled' = Pulls
  /\ log' = log \cup Between(cursor, top)
  /\ mem' = mem \cup Between(cursor, top)
  /\ cursor' = head /\ disk' = head
  /\ raced' = raced \cup (Between(top, head) \ Between(0, disk))
  /\ top' = 0
  /\ pc' = "hook"
  /\ UNCHANGED <<relayVars, local, elsewhere, outer, backoff, held, fails, excused, flaps>>

\* on_round returns.
HookDone ==
  /\ pc = "hook"
  /\ AfterRound
  /\ UNCHANGED <<relayVars, vaultVars, cursor, backoff, held, fails, excused, flaps>>

\* A transient error: swallowed, and the loop goes on.
RoundFails ==
  /\ pc \in {"push", "pull", "head"}
  /\ fails < MaxFails
  /\ fails' = fails + 1
  /\ excused' = IF sock = "up" THEN head ELSE 0
  /\ AfterRound
  /\ UNCHANGED <<relayVars, vaultVars, cursor, backoff, held, flaps>>

\* A fatal one, as when the relay refuses this device: the daemon ends.
Stop ==
  /\ pc \in {"push", "pull", "head"}
  /\ fails < MaxFails
  /\ fails' = fails + 1
  /\ pc' = "stopped" /\ sock' = "none" /\ mail' = <<>>
  /\ cursor' = 0 /\ mem' = {} /\ top' = 0 /\ pulled' = FALSE /\ outer' = TRUE
  /\ backoff' = 1 /\ held' = FALSE /\ excused' = 0 /\ flaps' = 0
  /\ UNCHANGED <<head, remote, untold, vaultVars>>

----------------------------------------------------------------------------
(* The loop *)

\* Mutant: the backoff is cleared by any connection the relay accepts.
OnConnect_reset == backoff' = 1

\* The backoff outlives a connect.
OnConnect == UNCHANGED backoff

Connect ==
  /\ pc = "connect"
  /\ sock' = "up" /\ mail' = <<>>
  /\ excused' = head
  /\ pc' = "wait"
  /\ OnConnect
  /\ UNCHANGED <<head, remote, untold, vaultVars, roundVars, outer, held, fails, flaps>>

ConnectFails ==
  /\ pc = "connect"
  /\ pc' = "sleep"
  /\ UNCHANGED <<relayVars, vaultVars, roundVars, outer, backoff, held, fails, excused, flaps>>

StartRound(first) == pc' = "push" /\ outer' = first

\* Mutant: only a head two past the cursor is news.
IsNews_off(n) == n > cursor + 1

\* Skip echoes of our own push.
IsNews(n) == n > cursor

\* The next message on the socket.
Receive ==
  /\ pc = "wait"
  /\ mail # <<>>
  /\ mail' = Tail(mail)
  /\ IF IsNews(Head(mail)) THEN StartRound(FALSE) ELSE UNCHANGED <<pc, outer>>
  /\ UNCHANGED <<head, remote, untold, sock, vaultVars, roundVars, backoff, held, fails,
                 excused, flaps>>

\* Mutant: without messages nothing happens.
Tick_never == FALSE /\ UNCHANGED syncdVars

\* The fallback tick.
Tick ==
  /\ pc = "wait"
  /\ StartRound(FALSE)
  /\ UNCHANGED <<relayVars, vaultVars, roundVars, backoff, held, fails, excused, flaps>>

\* The socket is found closed: a connection that held clears the backoff.
Closed ==
  /\ pc = "wait"
  /\ sock = "closed" /\ mail = <<>>
  /\ sock' = "none" /\ held' = FALSE
  /\ IF held THEN backoff' = 1 /\ flaps' = 0 /\ StartRound(TRUE)
             ELSE pc' = "sleep" /\ UNCHANGED <<backoff, flaps, outer>>
  /\ UNCHANGED <<head, remote, untold, mail, vaultVars, roundVars, fails, excused>>

\* Mutant: the delay grows without a cap.
NextBackoff_uncapped == 2 * backoff

NextBackoff == MinOf(2 * backoff, MaxBackoff)

\* The delay is over, and the next one will be longer.
Sleep ==
  /\ pc = "sleep"
  /\ backoff' = NextBackoff
  /\ flaps' = MinOf(flaps + 1, MaxBackoff - 1)
  /\ StartRound(TRUE)
  /\ UNCHANGED <<relayVars, vaultVars, roundVars, held, fails, excused>>

Others == RemotePush \/ Notify \/ LocalAppend \/ OtherSync \/ Drop \/ Hold

\* What the daemon does by itself; HookDone is left to the hook.
Loop ==
  \/ Push \/ PullRows \/ PullHead
  \/ Connect \/ ConnectFails \/ Receive \/ Tick \/ Closed \/ Sleep

Trouble == RoundFails \/ Stop

----------------------------------------------------------------------------
(* Properties *)

\* notify and echo suppression lose no wake-up: an entry of another device that
\* was stored while the daemon was connected, and that no round has failed to
\* pull, is in the log, or is about to be announced, or is covered by a message
\* still to be read, or by the round under way; the one exception is an entry
\* stored between the two statements of a pull, which the cursor has passed and
\* whose announcement is taken for an echo.
NoLostWakeUp ==
  sock = "up" => \A n \in Between(excused, head) \ raced :
    \/ n \in log
    \/ n \in untold
    \/ pc \in {"push", "pull", "head"}
    \/ \E i \in 1..Len(mail) : mail[i] >= n

\* 1 doubled n times.
Doubled[n \in Nat] == IF n = 0 THEN 1 ELSE 2 * Doubled[n - 1]

\* "A relay that accepts the handshake then immediately drops us must not reset
\* us into a tight reconnect spin": the delay before the next connect has doubled
\* with every connection in a row that failed or did not hold.
BackoffClimbs == backoff = MinOf(Doubled[flaps], MaxBackoff)

\* Every entry is exchanged in the end, notified or not, unless the daemon stops
\* on a fatal error: again and again this device has nothing left to push, and has
\* all entries of other devices in its log, but for those stored between the two
\* statements of a pull.
RoundsDeliver ==
  []<>(pc = "stopped" \/ (local = 0 /\ remote \subseteq log \cup raced))
=============================================================================
