------------------------------ MODULE RateLimiter ------------------------------
(***************************************************************************)
(* The limiter in front of every handler: so many requests of a client for *)
(* a category in a window of time, which starts with the first of them.    *)
(* Refusals go to the abuse monitor, which counts them over a sliding      *)
(* window under the hash of the client's address, whatever it asked for,   *)
(* and raises an alert.  So do the refusals of handlers that have caps of  *)
(* their own.  The salt of the hash changes every day, after which an      *)
(* address is a new one to the monitor.  Everything is in memory, and lost *)
(* in a restart.                                                           *)
(***************************************************************************)
EXTENDS Naturals, Sequences, FiniteSets

CONSTANTS Address,    \* addresses of clients
          Category,   \* methods and categories of requests
          Limit,      \* the limit of the category
          Window,     \* RATE_LIMIT_WINDOW_MS, in ticks of the clock
          AlertAt,    \* three times RATE_LIMIT_MAX
          MaxEvents   \* MAX_BUFFER_SIZE

\* What an instance must satisfy.
LimiterAssumption ==
    /\ Limit \in Nat \ {0}
    /\ Window \in Nat \ {0}
    /\ AlertAt \in Nat \ {0}
    /\ MaxEvents \in Nat \ {0}

VARIABLES windows,   \* store: the requests of an address for a category, in
                     \* their window
          refusals,  \* windowCounters: the ages of each address's refusals
          events     \* recentEvents: the kinds of events

lvars == <<windows, refusals, events>>

----------------------------------------------------------------------------
\* Who the limiter tells apart: an address asking for a category.
Client == Address \X Category

\* A window that is over, has been cleaned up, or never was: left is 0.
NoWindow == [count |-> 0, left |-> 0]
WindowRow == [count: 0..Limit, left: 0..Window]

\* Mutant of Buffered: the oldest event is not dropped.
BufferedAll(buffer, kind) == Append(buffer, kind)

\* pushEvent.
Buffered(buffer, kind) ==
    LET full == Append(buffer, kind) IN
    IF Len(full) > MaxEvents THEN Tail(full) ELSE full

\* Entries are pushed as time passes, so that those still in a sliding window
\* follow those that are not: the place of the first, past the end if none is.
FirstRecent(ages) ==
    CHOOSE i \in 1..Len(ages) + 1 :
        /\ i <= Len(ages) => ages[i] < Window
        /\ \A j \in 1..i - 1 : ages[j] >= Window

\* The entries of a sliding window.
Recent(ages) == SubSeq(ages, FirstRecent(ages), Len(ages))

\* Of the entries of a sliding window no more are kept than an alert needs: as
\* entries leave it oldest first, it has AlertAt or more exactly if the newest
\* AlertAt are in it.
Newest(ages) == IF Len(ages) > AlertAt THEN Tail(ages) ELSE ages

Open(c) == IF windows[c].left = 0 THEN [count |-> 0, left |-> Window] ELSE windows[c]

----------------------------------------------------------------------------
Init ==
    /\ windows = [c \in Client |-> NoWindow]
    /\ refusals = [a \in Address |-> <<>>]
    /\ events = <<>>

Admit(c) ==
    /\ Open(c).count < Limit
    /\ windows' = [windows EXCEPT ![c] = [Open(c) EXCEPT !.count = @ + 1]]
    /\ UNCHANGED <<refusals, events>>

\* recordAbuse of a refusal.
Record(a) ==
    LET ages == Append(Recent(refusals[a]), 0)
        refused == Buffered(events, "refused")
    IN
    /\ refusals' = [refusals EXCEPT ![a] = Newest(ages)]
    /\ events' = IF Len(ages) >= AlertAt THEN Buffered(refused, "alert") ELSE refused

Refuse(c) ==
    /\ windows[c].left > 0
    /\ windows[c].count >= Limit
    /\ Record(c[1])
    /\ UNCHANGED windows

\* A request that was admitted meets a cap of its handler (status 429).
RefuseInHandler(a) ==
    /\ Record(a)
    /\ UNCHANGED windows

RotateSalt ==
    /\ refusals' = [a \in Address |-> <<>>]
    /\ UNCHANGED <<windows, events>>

Restart ==
    /\ windows' = [c \in Client |-> NoWindow]
    /\ refusals' = [a \in Address |-> <<>>]
    /\ events' = <<>>

\* Time passes.
Tick ==
    /\ \/ \E c \in Client : windows[c].left > 0
       \/ \E a \in Address : Recent(refusals[a]) # <<>>
    /\ windows' = [c \in Client |->
           IF windows[c].left > 1 THEN [windows[c] EXCEPT !.left = @ - 1] ELSE NoWindow]
    /\ refusals' = [a \in Address |->
           [i \in DOMAIN Recent(refusals[a]) |-> Recent(refusals[a])[i] + 1]]
    /\ UNCHANGED events

Next ==
    \/ \E c \in Client : Admit(c) \/ Refuse(c)
    \/ \E a \in Address : RefuseInHandler(a)
    \/ RotateSalt
    \/ Restart
    \/ Tick

Spec == Init /\ [][Next]_lvars

----------------------------------------------------------------------------
(* Properties.                                                             *)

\* Entries have the shape the code gives them; no window admits more than the
\* limit, and the buffer of events never grows beyond its size.  (How many
\* entries the monitor holds is bounded by Newest, not by the code.)
TypeOK ==
    /\ windows \in [Client -> WindowRow]
    /\ \A c \in Client : windows[c].left = 0 => windows[c] = NoWindow
    /\ refusals \in [Address -> Seq(0..Window)]
    /\ events \in Seq({"refused", "alert"}) /\ Len(events) <= MaxEvents

\* A client that is refused is admitted again sooner or later, however often
\* it tries meanwhile (RateLimitMiddleware.handle).
AdmittedAgain == \A c \in Client : []<>(Open(c).count < Limit)
=============================================================================
