-------------------------------- MODULE Pajareo --------------------------------
(***************************************************************************)
(* Pajareo: what people say anonymously to a representative, with the      *)
(* supports, reports and responses each entry gathers.  An entry is also a *)
(* post of the session's pajareo identity.  The counters of an entry are   *)
(* columns of their own, raised by a second statement after a row is       *)
(* stored; nothing is in a transaction.                                    *)
(***************************************************************************)
EXTENDS Naturals, FiniteSets

CONSTANTS Session,       \* sessions
          Entry,         \* ids of entries (a bound)
          MaxResponses,  \* responses to an entry (a bound)
          None           \* JavaScript undefined

\* What an instance must satisfy.
PajareoAssumption ==
    /\ None \notin Session
    /\ MaxResponses \in Nat
    /\ IsFiniteSet(Session)

VARIABLES
    entries,    \* pajareo_entries, with their counters
    linked,     \* entries whose post is linked to the identity they were made by
    supports,   \* pajareo_entry_supports
    reports,    \* pajareo_entry_reports
    responses,  \* pajareo_responses: how many there are of each entry
    missed      \* history: counters the process died before raising

pvars == <<entries, linked, supports, reports, responses, missed>>

----------------------------------------------------------------------------
EntryType == {"firma", "pregunta", "senal", "testimonio"}

Counter == {"support", "report", "response"}

\* More than any counter should reach.
Most == Cardinality(Session) + MaxResponses + 1
EntryRow == [author: Session, type: EntryType, counts: [Counter -> 0..Most]]
NoEntry == [author |-> None, type |-> "none", counts |-> [k \in Counter |-> 0]]

\* A signature counts as its author's support, without a row of its own.
Signatures(type) == IF type = "firma" THEN 1 ELSE 0
NewEntry(s, type) ==
    [author |-> s, type |-> type,
     counts |-> [k \in Counter |-> IF k = "support" THEN Signatures(type) ELSE 0]]

Raise(e, k) == entries' = [entries EXCEPT ![e].counts[k] = @ + 1]

----------------------------------------------------------------------------
Init ==
    /\ entries = [e \in Entry |-> NoEntry]
    /\ linked = {}
    /\ supports = {}
    /\ reports = {}
    /\ responses = [e \in Entry |-> 0]
    /\ missed = [e \in Entry |-> [k \in Counter |-> 0]]

CreateEntry(s, e, type) ==
    /\ entries[e] = NoEntry
    /\ entries' = [entries EXCEPT ![e] = NewEntry(s, type)]
    /\ linked' = linked \cup {e}
    /\ UNCHANGED <<supports, reports, responses, missed>>

\* The process dies before the post is linked.
CrashInCreate(s, e, type) ==
    /\ entries[e] = NoEntry
    /\ entries' = [entries EXCEPT ![e] = NewEntry(s, type)]
    /\ UNCHANGED <<linked, supports, reports, responses, missed>>

\* A row of a kind is stored; its second statement raises the counter, unless
\* the process dies between the two.
RaiseOrDie(e, k) ==
    \/ /\ Raise(e, k)
       /\ UNCHANGED missed
    \/ /\ missed' = [missed EXCEPT ![e][k] = @ + 1]
       /\ UNCHANGED entries

\* Mutant of Inserted: the counter is raised whether or not a row was stored.
InsertedAlways(s, e, rows) == TRUE

\* INSERT OR IGNORE stored a row.
Inserted(s, e, rows) == <<s, e>> \notin rows

Support(s, e) ==
    /\ entries[e] # NoEntry
    /\ Inserted(s, e, supports)
    /\ supports' = supports \cup {<<s, e>>}
    /\ RaiseOrDie(e, "support")
    /\ UNCHANGED <<linked, reports, responses>>

Report(s, e) ==
    /\ entries[e] # NoEntry
    /\ Inserted(s, e, reports)
    /\ reports' = reports \cup {<<s, e>>}
    /\ RaiseOrDie(e, "report")
    /\ UNCHANGED <<linked, supports, responses>>

\* Anybody may respond, and respond again.
Respond(e) ==
    /\ entries[e] # NoEntry
    /\ responses[e] < MaxResponses
    /\ responses' = [responses EXCEPT ![e] = @ + 1]
    /\ RaiseOrDie(e, "response")
    /\ UNCHANGED <<linked, supports, reports>>

Next ==
    \/ \E s \in Session, e \in Entry, type \in EntryType :
          CreateEntry(s, e, type) \/ CrashInCreate(s, e, type)
    \/ \E s \in Session, e \in Entry : Support(s, e) \/ Report(s, e)
    \/ \E e \in Entry : Respond(e)

Spec == Init /\ [][Next]_pvars

----------------------------------------------------------------------------
(* Properties.                                                             *)

\* Rows have the shape the code gives them.
TypeOK ==
    /\ entries \in [Entry -> EntryRow \cup {NoEntry}]
    /\ linked \subseteq Entry
    /\ supports \subseteq Session \X Entry
    /\ reports \subseteq Session \X Entry
    /\ responses \in [Entry -> 0..MaxResponses]
    /\ missed \in [Entry -> [Counter -> 0..Most]]

\* The counters tell the rows: whatever is repeated and in whatever order, an
\* entry counts each session's support and report once, its responses, and the
\* author of a signature, less what the process died before counting
\* (supportPajareoEntry, reportPajareoEntry, createPajareoResponse).
CountersTellRows ==
    \A e \in Entry : entries[e] # NoEntry =>
        LET counted(k) == entries[e].counts[k] + missed[e][k] IN
        /\ counted("support") = Signatures(entries[e].type)
                                + Cardinality({s \in Session : <<s, e>> \in supports})
        /\ counted("report") = Cardinality({s \in Session : <<s, e>> \in reports})
        /\ counted("response") = responses[e]
=============================================================================
