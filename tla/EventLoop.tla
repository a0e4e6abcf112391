----------------------------- MODULE EventLoop ------------------------------
(***************************************************************************)
(* The event loop (src/src/EventLoop.cpp) that all serial ports share: one *)
(* thread around epoll_wait, the handlers other threads register with it,  *)
(* and its shutdown.  The ports' EventLoop objects are copies with handler *)
(* tables of their own over one EventLoopInternal; since no two ports use  *)
(* one descriptor, "handlers" is their union.                              *)
(*                                                                         *)
(* epoll is external: level-triggered, it keeps a list of candidates.  A   *)
(* wait walks the list from its head, reports those that are ready and     *)
(* appends each again at the tail; the others leave the list.              *)
(***************************************************************************)
EXTENDS Integers, Sequences, SequencesExt

CONSTANTS
  Sources,      \* descriptors of the ports: servers, clients, timers
  Interrupt,    \* the loop's own eventfd, mInterruptFd
  MaxEvents,    \* length of the array given to epoll_wait
  Sticky,       \* sources that stay ready whatever their handler does: the
                \* client socket of a terminal that has hung up
  MaxAgain,     \* how often in a row a source may be ready again by the time
                \* its handler has ended, or before the next wait: a server
                \* with further connections to accept or without descriptors
                \* for one, a client ready in its other direction
  MayRemove     \* another thread may remove handlers while the loop runs

ASSUME EventLoopAssumption ==
  /\ Interrupt \notin Sources
  /\ MaxEvents \in Nat \ {0}
  /\ Sticky \subseteq Sources
  /\ MaxAgain \in Nat
  /\ MayRemove \in BOOLEAN

VARIABLES
  registered,   \* descriptors epoll watches
  handlers,     \* descriptors with a live handler object
  adding,       \* descriptors that the changing thread is half-way through
  removing,     \* adding or removing; none if it is not in the table
  ready,        \* descriptors whose condition holds now
  candidates,   \* epoll's list
  todo,         \* events reported and still to be dispatched, in order
  served,       \* sources served since the last wait
  again,        \* times in a row that a source was ready again
  epollOpen,    \* mEpollFd # -1
  pc,           \* loop thread: "wait", "dispatch", "ended"
  owner         \* the loop object: "up", "joining" in its destructor, "gone"

table == <<registered, handlers, adding, removing>>
loop == <<todo, served, again, epollOpen, pc>>
vars == <<table, ready, candidates, loop, owner>>

Changing == adding \union removing # {}

TypeOK ==
  /\ registered \subseteq Sources \union {Interrupt}
  /\ handlers \subseteq Sources \union {Interrupt}
  /\ adding \subseteq Sources /\ removing \subseteq Sources
  /\ ready \subseteq Sources \union {Interrupt}
  /\ candidates \in Seq(registered) /\ IsInjective(candidates)
  /\ todo \in Seq(Sources \union {Interrupt}) /\ IsInjective(todo)
  /\ served \subseteq Sources \union {Interrupt}
  /\ again \in 0..MaxAgain
  /\ epollOpen \in BOOLEAN
  /\ pc \in {"wait", "dispatch", "ended"}
  /\ (pc = "dispatch") <=> (todo # <<>>)
  /\ owner \in {"up", "joining", "gone"}

-----------------------------------------------------------------------------
(* Other threads: the vCPU thread sets the ports up and takes them down.    *)
(* They take no lock the loop knows of, so a change is several steps.  For  *)
(* a descriptor that has a handler addEvent starts with removeEvent: that   *)
(* is RemoveEvent and FinishRemove, then AddEvent.                          *)

\* The members of S in the list s, in the order of the list
Kept(s, S) ==
  LET kept[i \in 0..Len(s)] ==
        IF i = 0 THEN <<>>
        ELSE IF s[i] \in S THEN Append(kept[i - 1], s[i]) ELSE kept[i - 1]
  IN  kept[Len(s)]

Watched(s) == IF s \in ready THEN Append(candidates, s) ELSE candidates

AddEvent_NoCheck(s) ==
  /\ owner = "up" /\ ~Changing
  /\ handlers' = handlers \union {s}
  /\ adding' = {s}
  /\ UNCHANGED <<registered, removing, ready, candidates, loop, owner>>

\* addEvent stores the handler, then has epoll watch the descriptor
AddEvent(s) ==
  /\ owner = "up" /\ ~Changing /\ s \notin handlers
  /\ handlers' = handlers \union {s}
  /\ adding' = {s}
  /\ UNCHANGED <<registered, removing, ready, candidates, loop, owner>>

FinishAdd(s) ==
  /\ s \in adding
  /\ registered' = registered \union {s}
  /\ candidates' = Watched(s)
  /\ adding' = {}
  /\ UNCHANGED <<handlers, removing, ready, loop, owner>>

Unwatch(s) ==
  /\ registered' = registered \ {s}
  /\ candidates' = Kept(candidates, registered')

\* removeEvent: epoll forgets the descriptor, then the handler is destroyed.
\* Nothing tells whether the loop has an event of s in hand.
RemoveEvent(s) ==
  /\ MayRemove /\ owner = "up" /\ ~Changing /\ s \in registered
  /\ Unwatch(s)
  /\ removing' = {s}
  /\ UNCHANGED <<handlers, adding, ready, loop, owner>>

\* removeHandlers, for all descriptors of a port's loop object: epoll forgets
\* one after the other, then all handlers are destroyed
RemoveHandlers(S) ==
  /\ MayRemove /\ owner = "up" /\ ~Changing
  /\ removing' = S
  /\ UNCHANGED <<registered, handlers, adding, ready, candidates, loop, owner>>

Deregister(s) ==
  /\ s \in removing \intersect registered
  /\ Unwatch(s)
  /\ UNCHANGED <<handlers, adding, removing, ready, loop, owner>>

FinishRemove_OneForgotten ==
  /\ removing # {} /\ ~(removing \subseteq registered)
  /\ handlers' = handlers \ removing
  /\ removing' = {}
  /\ UNCHANGED <<registered, adding, ready, candidates, loop, owner>>

FinishRemove ==
  /\ removing # {} /\ removing \intersect registered = {}
  /\ handlers' = handlers \ removing
  /\ removing' = {}
  /\ UNCHANGED <<registered, adding, ready, candidates, loop, owner>>

\* ~EventLoopInternal: wake the loop, then join it
Destroy ==
  /\ owner = "up" /\ ~Changing
  /\ owner' = "joining"
  /\ ready' = ready \union {Interrupt}
  /\ candidates' = IF Contains(candidates, Interrupt) THEN candidates
                   ELSE Append(candidates, Interrupt)
  /\ UNCHANGED <<table, loop>>

Join ==
  /\ owner = "joining" /\ pc = "ended"
  /\ owner' = "gone"
  /\ UNCHANGED <<table, ready, candidates, loop>>

-----------------------------------------------------------------------------
(* The loop thread.                                                         *)

\* n of the loop: the comparison is inside the assignment, so n is its result
EventCount_Failed(result) == IF result # -1 THEN 0 ELSE 1

EventCount(result) == IF result # -1 THEN 1 ELSE 0

\* How many of the ready descriptors fit into the array
Reported_OneLess(live) ==
  IF Len(live) < MaxEvents - 1 THEN Len(live) ELSE MaxEvents - 1

Reported(live) == IF Len(live) < MaxEvents THEN Len(live) ELSE MaxEvents

EpollWait ==
  LET live  == Kept(candidates, ready)
      n     == Reported(live)
      batch == SubSeq(live, 1, n)
  IN  /\ pc = "wait" /\ epollOpen /\ live # <<>>
      /\ candidates' = SubSeq(live, n + 1, Len(live)) \o batch
      /\ todo' = SubSeq(batch, 1, EventCount(n))
      /\ served' = {}
      /\ pc' = IF todo' = <<>> THEN "wait" ELSE "dispatch"
      /\ UNCHANGED <<table, ready, again, epollOpen, owner>>

\* Whether mEpollFd is open after the handler of s: mInterruptHandler closes it
OpenAfter_Kept(s) == epollOpen

OpenAfter(s) == epollOpen /\ s # Interrupt

\* The handler of the first event runs to its end.  As a rule it serves its
\* source; but the source may be ready still or again.
Dispatch ==
  LET s == Head(todo)
  IN  /\ pc = "dispatch"
      /\ \E stays \in BOOLEAN :
           /\ s \in Sticky => stays
           /\ stays => s \in Sticky \/ (s \in Sources /\ again < MaxAgain)
           /\ ready' = IF stays THEN ready ELSE ready \ {s}
           /\ again' = IF stays /\ s \notin Sticky THEN again + 1 ELSE 0
      /\ served' = served \union {s}
      /\ epollOpen' = OpenAfter(s)
      /\ todo' = Tail(todo)
      /\ pc' = IF todo' # <<>> THEN "dispatch"
               ELSE IF epollOpen' THEN "wait" ELSE "ended"
      /\ UNCHANGED <<table, candidates, owner>>

\* The pointer epoll returned may lead to a handler that no longer exists.
\* Calling it is undefined: it may work (Dispatch), or end the process.
DispatchDestroyed ==
  /\ pc = "dispatch" /\ Head(todo) \notin handlers
  /\ pc' = "ended" /\ todo' = <<>>
  /\ owner' = "gone"
  /\ UNCHANGED <<table, ready, candidates, served, again, epollOpen>>

-----------------------------------------------------------------------------
(* The kernel: a descriptor's condition begins to hold.  If that is the one *)
(* that the loop has just served, before it waits again, then Dispatch      *)
(* leaves it ready: its place on the list is the same.                      *)

BecomeReady(s) ==
  /\ owner # "gone" /\ s \notin ready \union served
  /\ ready' = ready \union {s}
  /\ candidates' = IF s \in registered /\ ~Contains(candidates, s)
                   THEN Append(candidates, s) ELSE candidates
  /\ UNCHANGED <<table, loop, owner>>

Terminated == owner = "gone" /\ UNCHANGED vars

Init ==
  /\ registered = {Interrupt} /\ handlers = {Interrupt}
  /\ adding = {} /\ removing = {}
  /\ ready = {} /\ candidates = <<>> /\ todo = <<>>
  /\ served = {} /\ again = 0
  /\ epollOpen = TRUE
  /\ pc = "wait"
  /\ owner = "up"

Next ==
  \/ \E s \in Sources : AddEvent(s) \/ FinishAdd(s) \/ BecomeReady(s)
  \/ \E s \in Sources : RemoveEvent(s) \/ Deregister(s)
  \/ \E S \in SUBSET (registered \ {Interrupt}) : RemoveHandlers(S)
  \/ FinishRemove
  \/ Destroy \/ Join
  \/ EpollWait \/ Dispatch \/ DispatchDestroyed
  \/ Terminated

Spec == Init /\ [][Next]_vars

\* The loop's thread is scheduled, and so is the one that joins it
FairSpec == Spec /\ WF_vars(EpollWait \/ Dispatch) /\ WF_vars(Join)

-----------------------------------------------------------------------------
\* Whatever epoll watches has a handler, at every point of both threads: the
\* loop finds none missing among events reported after a removal began.
WatchedHasHandler == registered \subseteq handlers

\* Every source that becomes ready is dispatched in the end, though only the
\* first event of each batch is: served sources fall off epoll's list, so the
\* first place comes to each.
EverySourceServed ==
  \A s \in Sources :
    s \in ready \intersect registered /\ owner = "up"
      ~> (todo # <<>> /\ Head(todo) = s) \/ s \notin registered \/ owner # "up"

\* No source that epoll watches and that is ready is off epoll's list: neither
\* a handler added half-way, nor a removal, nor the turning of the list in a
\* wait forgets one.
ReadyIsListed == registered \intersect ready \subseteq ToSet(candidates)

Precedes(list, t, s) ==
  \E i, j \in DOMAIN list : i < j /\ list[i] = t /\ list[j] = s

\* s is ready and will be reported once it is at the head of the list
Waiting(s) == s \in ready \intersect ToSet(candidates)

\* As long as a source waits, none comes to stand before it that did not stand
\* there already, whatever is added, removed or becomes ready meanwhile.
NoOvertaking ==
  [][\A s, t \in Sources \union {Interrupt} :
       Waiting(s) /\ Waiting(s)' /\ Precedes(candidates, t, s)'
         => Precedes(candidates, t, s)]_vars

\* A wait puts the source in hand that no ready one stands before on the list,
\* so the first of those that wait is served.
ServesFirst ==
  [][EpollWait =>
       \A t \in ready : ~ Precedes(candidates, t, Head(todo'))]_vars

\* While the destructor waits for the loop's thread and the thread runs, epoll
\* is open and has the interrupt to report: the thread cannot sleep for ever.
StopIsHeard ==
  owner = "joining" /\ pc # "ended"
    => epollOpen /\ Waiting(Interrupt)

\* A destructor that waits for the loop's thread gets its answer.
ShutdownCompletes == owner = "joining" ~> owner = "gone"

=============================================================================
