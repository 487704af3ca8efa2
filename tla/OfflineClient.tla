---------------------------- MODULE OfflineClient ----------------------------
(***************************************************************************)
(* The browser client's write operations: sent directly while it is        *)
(* online, kept in a local queue otherwise, and replayed by                *)
(* syncOfflineWriteQueue when the connection is back.                      *)
(*                                                                         *)
(* A sender is an operation sent directly or a run of the replay loop.     *)
(* wire[s] is its one outstanding request: on its way to the server        *)
(* ("req"), answered ("ok", "refused"), lost, or answered 401 ("unauth")   *)
(* until the session is refreshed and it is sent again ("again").  The     *)
(* queue is React state that an effect copies to localStorage after every  *)
(* change, so a reload finds it as it was.  ClientScreen composes these    *)
(* actions with what the client shows and holds the specification.         *)
(***************************************************************************)
EXTENDS Naturals, Sequences, SequencesExt

CONSTANTS
    Op,        \* write operations a user submits, each once
    Refused,   \* operations the server refuses whenever it gets them
    User,
    FirstUser, \* whose session the page finds at first
    Loop,      \* bound: runs of the replay loop alive at once
    Budget,    \* bounds, to choose from: lost messages, outages, logouts, reloads,
               \* expiries of the access token, company switches and visits of a module
    Null

ASSUME OfflineClientConstants ==
    /\ Null \notin User \cup Op /\ FirstUser \in User
    /\ Op \cap Loop = {}
    /\ Refused \subseteq Op
    /\ Budget \subseteq [losses : Nat, outages : Nat, sessions : Nat, reloads : Nat,
                          expiries : Nat, switches : Nat, visits : Nat]

Sender == Op \cup Loop

VARIABLES
    user,       \* who is logged in
    online,     \* isOnline
    status,     \* offlineSyncStatus
    writeQueue, \* offlineWriteQueue
    owner,      \* userId of each submitted operation
    todo,       \* what each replay loop has left of its snapshot
    wire,       \* the outstanding request of each sender
    closure,    \* direct operations whose handler saw the status "syncing"
    expired,    \* has the access token expired?
    gate,       \* what the session still lacks: "password", "mfa" or nothing ("open")
    log,        \* what the server applied, in order
    unheard,    \* history: operations whose answer of success was lost
    doubled,    \* history: was a loop started while another was running?
    dropped,    \* history: operations taken off the queue by logout or login
    left        \* what remains of the bounds

writeVars == <<user, online, status, writeQueue, owner, todo, wire, closure, expired, gate,
               log, unheard, doubled, dropped, left>>
history == <<unheard, doubled, dropped>>

WritesInit ==
    /\ user = FirstUser
    /\ online = TRUE
    /\ status = "idle"
    /\ writeQueue = <<>>
    /\ owner = [o \in Op |-> Null]
    /\ todo = [l \in Loop |-> Null]
    /\ wire = [s \in Sender |-> "none"]
    /\ closure = {}
    /\ expired = FALSE /\ gate = "open" /\ log = <<>>
    /\ unheard = {} /\ doubled = FALSE /\ dropped = {}
    /\ left \in Budget

-----------------------------------------------------------------------------
Running(l) == todo[l] # Null
Carries(s) == IF s \in Op THEN s ELSE Head(todo[s])

(* filter: the operations of q that are in T, in their order. *)
Filter(q, T) ==
    LET kept[n \in 0 .. Len(q)] ==
          IF n = 0 THEN <<>>
          ELSE IF q[n] \in T THEN Append(kept[n - 1], q[n]) ELSE kept[n - 1]
    IN  kept[Len(q)]

(* Operations in flight or queued under user u. *)
Own(u) == Filter(writeQueue, {o \in Op : owner[o] = u})

(* offlineSyncStatus after an operation was queued by a handler that saw, or
   did not see, the status "syncing". *)
AfterEnqueue(syncing) == IF syncing THEN status ELSE "idle"

(* submitWriteOrQueue: queue when offline, otherwise try at once. *)
SubmitWriteOrQueue(o) ==
    /\ user # Null /\ owner[o] = Null
    /\ owner' = [owner EXCEPT ![o] = user]
    /\ IF online
       THEN /\ wire' = [wire EXCEPT ![o] = "req"]
            /\ closure' = IF status = "syncing" THEN closure \cup {o} ELSE closure
            /\ UNCHANGED <<writeQueue, status>>
       ELSE /\ writeQueue' = Append(writeQueue, o)
            /\ status' = AfterEnqueue(status = "syncing")
            /\ UNCHANGED <<wire, closure>>
    /\ UNCHANGED <<user, online, todo, expired, gate, log, history, left>>

(* The direct request comes back: done, shown as an error, or queued when
   there was no answer.  The handler still sees the status of the render it
   was created in. *)
FinishDirect(o) ==
    /\ wire[o] \in {"ok", "refused", "lost"}
    /\ wire' = [wire EXCEPT ![o] = "none"]
    /\ IF wire[o] = "lost"
       THEN writeQueue' = Append(writeQueue, o) /\ status' = AfterEnqueue(o \in closure)
       ELSE UNCHANGED <<writeQueue, status>>
    /\ closure' = closure \ {o}
    /\ UNCHANGED <<user, online, owner, todo, expired, gate, log, history, left>>

MayStart == user # Null /\ online /\ Own(user) # <<>> /\ status # "syncing"

(* The effect on user, connection, queue and status, or the button, starts a
   loop over a snapshot of the queue. *)
StartSync(l) ==
    /\ MayStart /\ ~Running(l)
    /\ todo' = [todo EXCEPT ![l] = Own(user)]
    /\ status' = "syncing"
    /\ doubled' = (doubled \/ \E k \in Loop : Running(k))
    /\ UNCHANGED <<closure, user, online, writeQueue, owner, wire, expired, gate, log, unheard, dropped, left>>

LoopSend(l) ==
    /\ Running(l) /\ todo[l] # <<>> /\ wire[l] = "none"
    /\ wire' = [wire EXCEPT ![l] = "req"]
    /\ UNCHANGED <<closure, user, online, status, writeQueue, owner, todo, expired, gate, log, history, left>>

Removed(o) == Filter(writeQueue, Op \ {o})

(* Fault: an accepted operation stays in the queue. *)
FaultyLoopAccepted(l) ==
    /\ Running(l) /\ wire[l] = "ok"
    /\ todo' = [todo EXCEPT ![l] = Tail(@)]
    /\ wire' = [wire EXCEPT ![l] = "none"]
    /\ UNCHANGED <<closure, user, online, status, writeQueue, owner, expired, gate, log, history, left>>

LoopAccepted(l) ==
    /\ Running(l) /\ wire[l] = "ok"
    /\ writeQueue' = Removed(Head(todo[l]))
    /\ todo' = [todo EXCEPT ![l] = Tail(@)]
    /\ wire' = [wire EXCEPT ![l] = "none"]
    /\ UNCHANGED <<closure, user, online, status, owner, expired, gate, log, history, left>>

(* Fault: a failure skips the operation and goes on with the next. *)
FaultyLoopFailed(l) ==
    /\ Running(l) /\ wire[l] \in {"refused", "lost"}
    /\ todo' = [todo EXCEPT ![l] = Tail(@)]
    /\ wire' = [wire EXCEPT ![l] = "none"]
    /\ UNCHANGED <<closure, user, online, status, writeQueue, owner, expired, gate, log, history, left>>

(* Fault: the loop gives up and leaves the status at syncing. *)
SilentLoopFailed(l) ==
    /\ Running(l) /\ wire[l] \in {"refused", "lost"}
    /\ todo' = [todo EXCEPT ![l] = Null]
    /\ wire' = [wire EXCEPT ![l] = "none"]
    /\ UNCHANGED <<closure, user, online, status, writeQueue, owner, expired, gate, log, history, left>>

LoopFailed(l) ==
    /\ Running(l) /\ wire[l] \in {"refused", "lost"}
    /\ status' = "error"
    /\ todo' = [todo EXCEPT ![l] = Null]
    /\ wire' = [wire EXCEPT ![l] = "none"]
    /\ UNCHANGED <<closure, user, online, writeQueue, owner, expired, gate, log, history, left>>

LoopFinished(l) ==
    /\ todo[l] = <<>>
    /\ status' = "idle"
    /\ todo' = [todo EXCEPT ![l] = Null]
    /\ UNCHANGED <<closure, user, online, writeQueue, owner, wire, expired, gate, log, history, left>>

-----------------------------------------------------------------------------
(* The server and the network. *)

(* The server applies the request or refuses it: always, or because nobody is
   logged in and the session cannot be refreshed, or its password or second
   factor is still to be set.  An expired token is answered 401, on the second
   try for good. *)
Serve(s) ==
    /\ wire[s] \in {"req", "again"}
    /\ LET verdict == IF user # Null /\ expired /\ wire[s] = "req" THEN "unauth"
                     ELSE IF \/ user = Null \/ expired \/ gate # "open"
                             \/ Carries(s) \in Refused THEN "refused"
                     ELSE "ok"
       IN  /\ wire' = [wire EXCEPT ![s] = verdict]
           /\ log' = IF verdict = "ok" THEN Append(log, Carries(s)) ELSE log
    /\ UNCHANGED <<closure, expired, gate, user, online, status, writeQueue, owner, todo, history, left>>

Expire ==
    /\ user # Null /\ ~expired /\ left.expiries > 0
    /\ expired' = TRUE
    /\ left' = [left EXCEPT !.expiries = @ - 1]
    /\ UNCHANGED <<closure, gate, user, online, status, writeQueue, owner, todo, wire, log, history>>

(* tryRefreshSession, shared by all that wait for it: they are sent again, or
   take their 401 for an answer when it is lost or nobody is logged in. *)
TryRefreshSession ==
    /\ \/ /\ user # Null
          /\ expired' = FALSE /\ UNCHANGED left
          /\ wire' = [s \in Sender |-> IF wire[s] = "unauth" THEN "again" ELSE wire[s]]
       \/ /\ user # Null => left.losses > 0
          /\ left' = IF user # Null THEN [left EXCEPT !.losses = @ - 1] ELSE left
          /\ wire' = [s \in Sender |-> IF wire[s] = "unauth" THEN "refused" ELSE wire[s]]
          /\ UNCHANGED expired
    /\ UNCHANGED <<closure, gate, user, online, status, writeQueue, owner, todo, log, history>>

Lose(s) ==
    /\ wire[s] \in {"req", "again", "ok", "refused"} /\ left.losses > 0
    /\ wire' = [wire EXCEPT ![s] = "lost"]
    /\ unheard' = IF wire[s] = "ok" THEN unheard \cup {Carries(s)} ELSE unheard
    /\ left' = [left EXCEPT !.losses = @ - 1]
    /\ UNCHANGED <<closure, user, online, status, writeQueue, owner, todo, expired, gate, log, doubled, dropped>>

HandleOffline ==
    /\ online /\ left.outages > 0
    /\ online' = FALSE
    /\ status' = "idle"
    /\ left' = [left EXCEPT !.outages = @ - 1]
    /\ UNCHANGED <<closure, user, writeQueue, owner, todo, wire, expired, gate, log, history>>

HandleOnline ==
    /\ ~online
    /\ online' = TRUE
    /\ UNCHANGED <<closure, user, status, writeQueue, owner, todo, wire, expired, gate, log, history, left>>

(* The session is cleared and the queue emptied; loops that are running are
   not stopped. *)
LoggedOut ==
    /\ user' = Null
    /\ dropped' = dropped \cup ToSet(writeQueue)
    /\ writeQueue' = <<>>
    /\ status' = "idle"
    /\ expired' = FALSE /\ gate' = "open"
    /\ UNCHANGED <<closure, online, owner, todo, wire, log, unheard, doubled>>

HandleLogout ==
    /\ user # Null /\ left.sessions > 0
    /\ LoggedOut
    /\ left' = [left EXCEPT !.sessions = @ - 1]

(* Another user's operations are filtered out of the queue. *)
Login(u) ==
    /\ user = Null
    /\ user' = u /\ gate' \in {"open", "mfa", "password"}
    /\ dropped' = dropped \cup {o \in ToSet(writeQueue) : owner[o] # u}
    /\ writeQueue' = Own(u)
    /\ UNCHANGED <<closure, online, status, owner, todo, wire, expired, log, unheard, doubled, left>>

(* The page is loaded again: what was in flight is forgotten, the queue comes
   from localStorage. *)
Reload ==
    /\ left.reloads > 0
    /\ unheard' = unheard \cup {Carries(s) : s \in {t \in Sender : wire[t] = "ok"}}
    /\ todo' = [l \in Loop |-> Null]
    /\ wire' = [s \in Sender |-> "none"]
    /\ closure' = {}
    /\ status' = "idle"
    /\ left' = [left EXCEPT !.reloads = @ - 1]
    /\ UNCHANGED <<user, online, writeQueue, owner, expired, gate, log, doubled, dropped>>

-----------------------------------------------------------------------------
(* Properties. *)

Applied == ToSet(log)
Waiting(o) == o \in ToSet(writeQueue)
Before(q, p, o) == \E i, j \in DOMAIN q : i < j /\ q[i] = p /\ q[j] = o

(* An operation is applied twice only after an answer of success was lost or
   an outage, or a write that failed on a stale status, let a second loop
   start over the same snapshot. *)
DuplicatesExplained == \A o \in Op : Before(log, o, o) => o \in unheard \/ doubled

(* Queued operations are applied in the order in which they were queued: none
   is applied while an earlier one of the same user still waits for its first
   time, even with two loops over the same queue; only an operation whose
   answer was lost before it was queued may be ahead of its turn. *)
AppliedInOrder ==
    \A p, o \in Op :
        Before(writeQueue, p, o) /\ owner[p] = owner[o] /\ o \in Applied \ unheard
          => p \in Applied

(* The server refuses an operation before this one, and goes on to. *)
Blocked(o) ==
    \E p \in Refused : (p = o /\ Waiting(o)) \/ Before(writeQueue, p, o)

(* A queued operation is applied once its user is logged in for good, the
   connection is back and no refused operation is ahead of it. *)
QueuedWritesArrive ==
    \A o \in Op : (Waiting(o) /\ user = owner[o] /\ gate = "open")
                     ~> (o \in Applied \/ Blocked(o) \/ o \in dropped)

-----------------------------------------------------------------------------
(* The inductive invariant behind DuplicatesExplained and AppliedInOrder. *)

Wire == {"none", "req", "unauth", "again", "ok", "refused", "lost"}

WriteTypeOK ==
    /\ writeQueue \in Seq(Op) /\ log \in Seq(Op) /\ unheard \subseteq Op
    /\ owner \in [Op -> User \cup {Null}] /\ user \in User \cup {Null}
    /\ todo \in [Loop -> Seq(Op) \cup {Null}]
    /\ wire \in [Sender -> Wire]
    /\ doubled \in BOOLEAN

(* An operation that was not submitted yet is nowhere; one that is sent
   directly is neither queued nor replayed, and is not applied before its
   answer is on its way. *)
Direct(o) ==
    LET held == Waiting(o) \/ \E l \in Loop : Running(l) /\ o \in ToSet(todo[l])
    IN  /\ owner[o] = Null => wire[o] = "none" /\ ~held /\ o \notin Applied
        /\ wire[o] # "none" => ~held
        /\ wire[o] \in {"req", "unauth", "again", "refused"} => o \notin Applied
        /\ wire[o] = "lost" /\ o \in Applied => o \in unheard

(* What a replay loop has left keeps the order of the queue: what is queued
   before one of its operations comes before it in the loop too, or was applied. *)
Replays(l) ==
    /\ wire[l] # "none" => Running(l) /\ todo[l] # <<>>
    /\ Running(l) => \A o \in ToSet(todo[l]) :
         /\ ~ Before(todo[l], o, o)
         /\ \A p \in Op : Before(writeQueue, p, o) /\ owner[p] = owner[o]
                            => p \in Applied \/ Before(todo[l], p, o)

(* Loop l knows that o was applied and is about to take it off the queue. *)
Settles(l, o) == Running(l) /\ wire[l] = "ok" /\ Head(todo[l]) = o

(* As long as only one loop has run at a time, an applied operation whose
   answer was not lost is only queued or replayed until its loop goes on. *)
OneLoop ==
    ~doubled =>
        /\ \A l, k \in Loop : Running(l) /\ Running(k) => l = k
        /\ \A o \in Applied \ unheard :
             /\ Waiting(o) => \E l \in Loop : Settles(l, o)
             /\ \A l \in Loop : Running(l) /\ o \in ToSet(todo[l]) => Settles(l, o)

WriteInv ==
    /\ WriteTypeOK
    /\ \A o \in Op : Direct(o) /\ ~ Before(writeQueue, o, o)
    /\ \A l \in Loop : Replays(l)
    /\ \A s \in Sender : wire[s] = "ok" => Carries(s) \in Applied
    /\ OneLoop /\ DuplicatesExplained /\ AppliedInOrder
=============================================================================
