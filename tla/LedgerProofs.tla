---------------------------- MODULE LedgerProofs ----------------------------
(***************************************************************************)
(* Further theorems about Bookings, on top of its types and reservations:     *)
(* what logs, events and answers say, that rooms are neither lost nor made,    *)
(* and that it implements BookingLedger.                                       *)
(***************************************************************************)
EXTENDS BookingsProofs, FiniteSetTheorems

USE DEF Proc

Before == {"start", "room", "reserve"} \cup InTransaction

\* A booking's row and its log exist from COMMIT on.
RowsExist ==
  /\ \A c \in Customer : pc[c] \in Before => status[c] = "NONE"
  /\ \A c \in Customer : pc[c] \in {"store", "emit"} => status[c] # "NONE"
  /\ \A c \in Customer : status[c] = "NONE" => log[c] = << >>

NewStatus(w) == IF w.target = "NONE" THEN w.status ELSE w.target

\* The status that a request has read is the status still.
UpToDate(label, w) ==
  /\ label \in {"refund", "save", "load", "write"} => w.status = status[w.booking]
  /\ label = "write" => w.loaded.status = status[w.booking]

\* What the locals of a staff request say of its booking.
Knows(label, w) ==
  /\ w.booking # None => status[w.booking] # "NONE"
  /\ label \in {"refund", "save"} =>
       w.status \in Status /\ w.target \in ValidNext[w.status]
  /\ label \in {"check", "load", "write"} => w.target = "NONE"
  /\ label = "emit" =>
       /\ w.status \in Status
       /\ \E i \in 1 .. Len(log[w.booking]) :
            log[w.booking][i] = Entry(w.status, NewStatus(w))
  /\ OneAtATime => UpToDate(label, w)

StaffKnows == \A s \in Staff : Knows(pc[s], work[s])

Exclusive ==
  OneAtATime => \A s, o \in Staff :
    work[s].booking # None /\ work[s].booking = work[o].booking => s = o

HistoryInv == IInv /\ RowsExist /\ StaffKnows /\ Exclusive

\* The last line of the log and the status agree, a new booking's apart.
StatusLogged ==
  \A c \in Customer :
    IF log[c] = << >> THEN status[c] \in {"NONE", "PENDING"}
    ELSE status[c] = log[c][Len(log[c])].new

ChainInv == OneAtATime => StatusLogged /\ LogIsChain

CountInv ==
  /\ \A r \in Room : IsFiniteSet(HeldUnits(r))
  /\ NoRoomLost
  /\ OneAtATime => InventoryExact

\* While keys are kept, an answered request's key leads to its booking.
KeyInv ==
  /\ \A c \in Customer : pc[c] \in {"emit", "done"} /\ req[c].key # None
       => stored[req[c].key] # None
  /\ \A c \in Customer : late[c] => pc[c] = "done" /\ status[c] = "NONE"
-----------------------------------------------------------------------------
(* What a step does to the rows                                               *)

LogEntry == [old : Status \cup {"NONE"}, new : Status]

\* A line is appended to one log.
LEMMA Appended ==
  ASSUME NEW S, NEW f \in [Customer -> Seq(S)], NEW b \in Customer, NEW e \in S,
         NEW g, g = [f EXCEPT ![b] = Append(@, e)]
  PROVE  /\ Len(g[b]) = Len(f[b]) + 1 /\ g[b][Len(g[b])] = e /\ g[b] # << >>
         /\ \A i \in 1 .. Len(f[b]) : g[b][i] = f[b][i]
         /\ \A c \in Customer \ {b} : g[c] = f[c]
<1>1. f[b] \in Seq(S) /\ g[b] = Append(f[b], e)
  OBVIOUS
<1> QED BY <1>1

\* Three actions write bookings; requests stay what they are.
LEMMA Writers ==
  ASSUME [Next]_vars
  PROVE  /\ req' = req
         /\ \/ UNCHANGED db
            \/ \E c \in Customer : Commit(c)
            \/ \E s \in Staff : SaveStatus(s) \/ SaveHandler(s)
<1>1. ASSUME NEW c \in Customer, CustomerStep(c) \/ FailCustomer(c), ~Commit(c)
      PROVE  UNCHANGED db /\ req' = req
  BY <1>1 DEF CustomerStep, CheckKey, ReadRoom, Reserve, Insert, Assign, StoreKey,
     EmitCreated, FailCustomer, customerVars, db
<1>2. ASSUME NEW s \in Staff, Begin(s) \/ StaffStep(s) \/ FailStaff(s),
             ~SaveStatus(s), ~SaveHandler(s)
      PROVE  UNCHANGED db /\ req' = req
  BY <1>2 DEF StaffStep, Begin, ReadBooking, Refund, CheckBooking, LoadBooking, EmitStatus,
     FailStaff, customerVars, db
<1>3. ASSUME NEW c \in Customer, Commit(c) PROVE req' = req
  BY <1>3 DEF Commit
<1>4. ASSUME NEW s \in Staff, SaveStatus(s) \/ SaveHandler(s) PROVE req' = req
  BY <1>4 DEF SaveStatus, SaveHandler, customerVars
<1>5. ASSUME NEW p \in Proc, TransientError(p) PROVE UNCHANGED db /\ req' = req
  BY <1>5 DEF TransientError, customerVars
<1>6. ASSUME NEW k \in Key, ExpireKey(k) PROVE UNCHANGED db /\ req' = req
  BY <1>6 DEF ExpireKey, customerVars
<1>7. CASE UNCHANGED vars
  BY <1>7 DEF vars, customerVars
<1> QED BY <1>1, <1>2, <1>3, <1>4, <1>5, <1>6, <1>7 DEF Next, Idle

\* A COMMIT of create().
LEMMA Committed ==
  ASSUME IInv, NEW c \in Customer, Commit(c)
  PROVE  /\ status'[c] = "PENDING"
         /\ log' = log \/ log' = [log EXCEPT ![c] = Append(@, Entry("NONE", "PENDING"))]
         /\ Entry("NONE", "PENDING") \in LogEntry /\ log \in [Customer -> Seq(LogEntry)]
         /\ \A d \in Customer \ {c} : status'[d] = status[d] /\ log'[d] = log[d]
<1>1. status' = [status EXCEPT ![c] = "PENDING"]
  BY DEF Commit
<1>2. log \in [Customer -> Seq(LogEntry)] /\ status \in [Customer -> Status \cup {"NONE"}]
  BY DEF IInv, TypeOK, RowsOK, LogEntry
<1>3. Entry("NONE", "PENDING") \in LogEntry
  BY DEF Entry, LogEntry, Status
<1>4. log' = log \/ log' = [log EXCEPT ![c] = Append(@, Entry("NONE", "PENDING"))]
  BY DEF Commit, Logged
<1> QED BY <1>1, <1>2, <1>3, <1>4

\* The save of a status: the row and one line of the log.
LEMMA Saved ==
  ASSUME IInv, NEW s \in Staff, SaveStatus(s)
  PROVE  LET b == work[s].booking
             t == work[s].target
         IN /\ b \in Customer /\ t \in Target /\ status'[b] = t
            /\ Entry(work[s].status, t) \in LogEntry /\ log \in [Customer -> Seq(LogEntry)]
            /\ log' = [log EXCEPT ![b] = Append(@, Entry(work[s].status, t))]
            /\ \A d \in Customer \ {b} : status'[d] = status[d] /\ log'[d] = log[d]
<1> DEFINE b == work[s].booking  t == work[s].target
<1>1. b \in Customer /\ t \in Target /\ work[s].status \in Status \cup {"NONE"}
  BY DEF SaveStatus, IInv, TypeOK, StaffOK, Work, WorkFilled
<1>2. log \in [Customer -> Seq(LogEntry)] /\ status \in [Customer -> Status \cup {"NONE"}]
  BY DEF IInv, TypeOK, RowsOK, LogEntry
<1>3. Entry(work[s].status, t) \in LogEntry
  BY <1>1 DEF Entry, LogEntry, Target
<1>4. /\ status' = [status EXCEPT ![b] = t]
      /\ log' = [log EXCEPT ![b] = Append(@, Entry(work[s].status, t))]
  BY DEF SaveStatus, Logged
<1> HIDE DEF b, t
<1>5. /\ status'[b] = t
      /\ \A d \in Customer \ {b} : status'[d] = status[d] /\ log'[d] = log[d]
  BY <1>1, <1>2, <1>4
<1> QED BY <1>1, <1>2, <1>3, <1>4, <1>5 DEF b, t

\* The save of a handler, which may write back the status it has read.
LEMMA SavedHandler ==
  ASSUME IInv, NEW s \in Staff, SaveHandler(s)
  PROVE  LET b == work[s].booking
             seen == work[s].status
         IN /\ b \in Customer /\ seen \in Reassignable
            /\ status'[b] = Overwrite(status[b], work[s].loaded.status, seen)
            /\ Entry(seen, seen) \in LogEntry /\ log \in [Customer -> Seq(LogEntry)]
            /\ log' = [log EXCEPT ![b] = Append(@, Entry(seen, seen))]
            /\ \A d \in Customer \ {b} : status'[d] = status[d] /\ log'[d] = log[d]
<1> DEFINE b == work[s].booking  seen == work[s].status
           new == Overwrite(status[b], work[s].loaded.status, seen)
<1>1. b \in Customer /\ seen \in Reassignable
  BY DEF SaveHandler, IInv, WorkFilled
<1>2. log \in [Customer -> Seq(LogEntry)] /\ status \in [Customer -> Status \cup {"NONE"}]
  BY DEF IInv, TypeOK, RowsOK, LogEntry
<1>3. Entry(seen, seen) \in LogEntry
  BY <1>1 DEF Entry, LogEntry, Reassignable, Status
<1>4. /\ status' = [status EXCEPT ![b] = new]
      /\ log' = [log EXCEPT ![b] = Append(@, Entry(seen, seen))]
  BY DEF SaveHandler, Logged
<1> HIDE DEF b, seen, new
<1>5. /\ status'[b] = new
      /\ \A d \in Customer \ {b} : status'[d] = status[d] /\ log'[d] = log[d]
  BY <1>1, <1>2, <1>4
<1> QED BY <1>1, <1>2, <1>3, <1>4, <1>5 DEF b, seen, new

\* A booking that exists goes on to, and its log only gets longer.
LEMMA Grows ==
  ASSUME IInv, StaffKnows, [Next]_vars, NEW b \in Customer
  PROVE  /\ status'[b] = "NONE" => status[b] = "NONE" /\ log'[b] = log[b]
         /\ \A i \in 1 .. Len(log[b]) : i \in 1 .. Len(log'[b]) /\ log'[b][i] = log[b][i]
<1>0. log[b] \in Seq(LogEntry) /\ Len(log[b]) \in Nat
  <2>1. log \in [Customer -> Seq(LogEntry)]
    BY DEF IInv, TypeOK, RowsOK, LogEntry
  <2> QED BY <2>1
<1>1. CASE UNCHANGED db
  BY <1>1 DEF db
<1>2. ASSUME NEW c \in Customer, Commit(c), b = c PROVE status'[b] # "NONE"
  BY <1>2, Committed
<1>3. ASSUME NEW s \in Staff, SaveStatus(s), b = work[s].booking PROVE status'[b] # "NONE"
  BY <1>3, Saved DEF Target, Status
<1>4. ASSUME NEW s \in Staff, SaveHandler(s), b = work[s].booking PROVE status'[b] # "NONE"
  <2>1. status[b] # "NONE"
    BY <1>4, BookingConstants DEF StaffKnows, Knows, SaveHandler, IInv, WorkFilled
  <2> QED BY <1>4, <2>1, SavedHandler DEF Overwrite, Reassignable
<1>5. ASSUME NEW e \in LogEntry, log' = [log EXCEPT ![b] = Append(@, e)]
      PROVE  \A i \in 1 .. Len(log[b]) : i \in 1 .. Len(log'[b]) /\ log'[b][i] = log[b][i]
  <2>1. log \in [Customer -> Seq(LogEntry)]
    BY DEF IInv, TypeOK, RowsOK, LogEntry
  <2>2. /\ Len(log'[b]) = Len(log[b]) + 1
        /\ \A i \in 1 .. Len(log[b]) : log'[b][i] = log[b][i]
    BY <1>5, <2>1, Appended
  <2> QED BY <1>0, <2>2
<1> DEFINE Longer == \A i \in 1 .. Len(log[b]) : i \in 1 .. Len(log'[b]) /\ log'[b][i] = log[b][i]
<1>6. log'[b] = log[b] => Longer
  BY <1>0
<1>7. ASSUME NEW c \in Customer, Commit(c) PROVE Longer /\ (status'[b] = "NONE" => log'[b] = log[b])
  <2>1. CASE c = b
    BY <1>2, <1>5, <1>6, <1>7, <2>1, Committed
  <2> QED BY <1>6, <1>7, <2>1, Committed
<1>8. ASSUME NEW s \in Staff, SaveStatus(s) PROVE Longer /\ (status'[b] = "NONE" => log'[b] = log[b])
  <2>1. CASE work[s].booking = b
    BY <1>3, <1>5, <1>8, <2>1, Saved
  <2> QED BY <1>6, <1>8, <2>1, Saved
<1>9. ASSUME NEW s \in Staff, SaveHandler(s) PROVE Longer /\ (status'[b] = "NONE" => log'[b] = log[b])
  <2>1. CASE work[s].booking = b
    BY <1>4, <1>5, <1>9, <2>1, SavedHandler
  <2> QED BY <1>6, <1>9, <2>1, SavedHandler
<1> HIDE DEF Longer
<1>10. status'[b] = "NONE" => status[b] = "NONE"
  BY <1>1, <1>2, <1>3, <1>4, Writers, Committed, Saved, SavedHandler
<1> QED BY <1>1, <1>7, <1>8, <1>9, <1>10, Writers DEF Longer
-----------------------------------------------------------------------------
(* What a step does to the requests                                           *)

\* A step of create(): the others stay where they are, and only COMMIT leads from
\* before it to behind it.
LEMMA CustomerMove ==
  ASSUME IInv, NEW c \in Customer, CustomerStep(c) \/ FailCustomer(c) \/ TransientError(c)
  PROVE  /\ UNCHANGED work /\ \A q \in Proc \ {c} : pc'[q] = pc[q]
         /\ pc'[c] \in Before => pc[c] \in Before /\ ~Commit(c)
         /\ pc'[c] \in {"store", "emit"} => pc[c] \in {"store", "emit"} \/ Commit(c)
<1>1. pc \in [Proc -> CustomerLabel \cup StaffLabel] /\ c \in Proc
  BY DEF IInv, TypeOK, ControlOK
<1>2. CASE CustomerStep(c) \/ FailCustomer(c)
  BY <1>1, <1>2 DEF CustomerStep, CheckKey, ReadRoom, Reserve, Insert, Assign, Commit, StoreKey,
     EmitCreated, FailCustomer, staffVars, GoTo, Before, InTransaction
<1>3. CASE TransientError(c)
  <2>1. pc[c] \in {"reserve", "insert"}
    BY <1>3 DEF TransientError, RestartAt, IInv, TypeOK, ControlOK, CustomerLabel,
       InTransaction, Final
  <2>2. RestartAt[pc[c]] = "reserve"
    BY <2>1 DEF RestartAt
  <2>3. UNCHANGED work /\ pc' = [pc EXCEPT ![c] = "reserve"] /\ ~Commit(c)
    BY <1>3, <2>1, <2>2 DEF TransientError, staffVars, GoTo, Commit
  <2> QED BY <1>1, <2>1, <2>3 DEF Before, InTransaction
<1> QED BY <1>2, <1>3

\* A step of a staff request: the others stay where and as they are.
LEMMA StaffAlone ==
  ASSUME IInv, NEW s \in Staff, Begin(s) \/ StaffStep(s) \/ FailStaff(s) \/ TransientError(s)
  PROVE  /\ \A q \in Proc \ {s} : pc'[q] = pc[q]
         /\ \A o \in Staff \ {s} : work'[o] = work[o]
<1>1. pc \in [Proc -> CustomerLabel \cup StaffLabel] /\ work \in [Staff -> Work]
  BY DEF IInv, TypeOK, ControlOK, StaffOK
<1>2. \E l : pc' = [pc EXCEPT ![s] = l]
  BY DEF StaffStep, ReadBooking, Refund, SaveStatus, CheckBooking, LoadBooking, SaveHandler,
     EmitStatus, FailStaff, TransientError, Leave, GoTo, Begin
<1>3. UNCHANGED work \/ \E v : work' = [work EXCEPT ![s] = v]
  BY DEF StaffStep, ReadBooking, Refund, SaveStatus, CheckBooking, LoadBooking, SaveHandler,
     EmitStatus, FailStaff, TransientError, Leave, Begin, staffVars
<1> QED BY <1>1, <1>2, <1>3

\* What is known of a booking stays true while others work, if the status does.
LEMMA KnowsKept ==
  ASSUME IInv, StaffKnows, [Next]_vars, NEW l, NEW w \in Work,
         w.booking \in Customer \/ l = "idle", Knows(l, w),
         OneAtATime /\ w.booking # None => status'[w.booking] = status[w.booking]
  PROVE  Knows(l, w)'
<1>1. w.booking \in Customer \/ (w.booking = None /\ l = "idle")
  BY DEF Work
<1>2. CASE w.booking = None /\ l = "idle"
  BY <1>2 DEF Knows, UpToDate
<1>3. CASE w.booking \in Customer
  <2> DEFINE b == w.booking
  <2>1. b # None
    BY <1>3, BookingConstants
  <2>2. status'[b] = "NONE" => status[b] = "NONE"
    BY <1>3, Grows
  <2>3. \A i \in 1 .. Len(log[b]) : i \in 1 .. Len(log'[b]) /\ log'[b][i] = log[b][i]
    BY <1>3, Grows
  <2>4. l = "emit" => \E i \in 1 .. Len(log'[b]) : log'[b][i] = Entry(w.status, NewStatus(w))
    BY <2>3 DEF Knows
  <2> QED BY <2>1, <2>2, <2>4 DEF Knows, UpToDate
<1> QED BY <1>1, <1>2, <1>3

\* A request that ends holds nothing.
LEMMA NothingKnown == Knows("idle", NoWork)'
  BY DEF Knows, NoWork, UpToDate

\* What a staff request knows after its own step.
LEMMA StaffLearns ==
  ASSUME HistoryInv, NEW s \in Staff,
         Begin(s) \/ StaffStep(s) \/ FailStaff(s) \/ TransientError(s)
  PROVE  Knows(pc[s], work[s])'
<1> DEFINE w == work[s]  b == work[s].booking
<1>0. /\ pc \in [Proc -> CustomerLabel \cup StaffLabel] /\ work \in [Staff -> Work]
      /\ status \in [Customer -> Status \cup {"NONE"}] /\ s \in Proc
      /\ Knows(pc[s], w) /\ IInv /\ StaffKnows
  BY DEF HistoryInv, IInv, TypeOK, ControlOK, StaffOK, RowsOK, StaffKnows
<1>1. CASE Leave(s)
  <2>1. pc'[s] = "idle" /\ work'[s] = NoWork
    BY <1>0, <1>1 DEF Leave, GoTo
  <2> QED BY <2>1, NothingKnown
<1>2. CASE Begin(s)
  <2>1. PICK d \in Customer, l \in {"read", "check"} :
          /\ status[d] # "NONE" /\ GoTo(s, l)
          /\ \/ l = "read" /\ \E t \in Target : work' = [work EXCEPT ![s] =
                                 [NoWork EXCEPT !.booking = d, !.target = t]]
             \/ l = "check" /\ \E a \in Staff : work' = [work EXCEPT ![s] =
                                 [NoWork EXCEPT !.booking = d, !.assignee = a]]
    BY <1>2, Zenon DEF Begin
  <2>2. pc'[s] = l /\ status' = status
    BY <1>0, <1>2, <2>1 DEF Begin, GoTo, db
  <2>3. work'[s].booking = d /\ (l = "check" => work'[s].target = "NONE")
    BY <1>0, <2>1 DEF NoWork
  <2> QED BY <2>1, <2>2, <2>3 DEF Knows, UpToDate
<1>3. CASE ReadBooking(s) /\ ~Leave(s)
  <2>1. /\ b \in Customer /\ w.target \in ValidNext[status[b]] /\ pc'[s] \in {"refund", "save"}
        /\ work'[s] = [w EXCEPT !.status = status[b], !.handler = handler[b]]
        /\ status' = status
    BY <1>0, <1>3 DEF ReadBooking, GoTo, db, IInv, WorkFilled
  <2>2. work'[s].booking = b /\ work'[s].target = w.target /\ work'[s].status = status[b]
    BY <1>0, <2>1 DEF Work
  <2>3. status[b] # "NONE" /\ status[b] \in Status
    BY <1>0, <2>1, BookingConstants DEF Knows
  <2> QED BY <2>1, <2>2, <2>3 DEF Knows, UpToDate
<1>4. CASE Refund(s)
  BY <1>0, <1>4 DEF Refund, GoTo, staffVars, db, Knows, UpToDate
<1>5. CASE SaveStatus(s)
  <2>1. /\ pc[s] = "save" /\ pc'[s] = "emit" /\ work'[s] = w
    BY <1>0, <1>5 DEF SaveStatus, GoTo, staffVars
  <2>2. /\ b \in Customer /\ w.target \in Target /\ status'[b] = w.target
        /\ Entry(w.status, w.target) \in LogEntry /\ log \in [Customer -> Seq(LogEntry)]
        /\ log' = [log EXCEPT ![b] = Append(@, Entry(w.status, w.target))]
    BY <1>0, <1>5, Saved
  <2>3. Len(log[b]) \in Nat /\ Len(log'[b]) = Len(log[b]) + 1
        /\ log'[b][Len(log'[b])] = Entry(w.status, w.target)
    BY <2>2, Appended
  <2>4. NewStatus(w) = w.target /\ w.target # "NONE"
    BY <2>2 DEF NewStatus, Target, Status
  <2>5. w.status \in Status
    BY <1>0, <2>1 DEF Knows
  <2>6. Len(log'[b]) \in 1 .. Len(log'[b])
    BY <2>3
  <2> QED BY <2>1, <2>2, <2>3, <2>4, <2>5, <2>6 DEF Knows, UpToDate
<1>6. CASE CheckBooking(s) /\ ~Leave(s)
  <2>1. /\ b \in Customer /\ status[b] \in Reassignable /\ pc[s] = "check" /\ pc'[s] = "load"
        /\ work'[s] = [w EXCEPT !.status = status[b]] /\ status' = status
    BY <1>0, <1>6 DEF CheckBooking, GoTo, db, IInv, WorkFilled
  <2>2. work'[s].booking = b /\ work'[s].target = w.target /\ work'[s].status = status[b]
    BY <1>0, <2>1 DEF Work
  <2> QED BY <1>0, <2>1, <2>2 DEF Knows, UpToDate, Reassignable
<1>7. CASE LoadBooking(s)
  <2>1. /\ pc[s] = "load" /\ pc'[s] = "write" /\ status' = status
        /\ work'[s] = [w EXCEPT !.loaded = [status |-> status[b], handler |-> handler[b]]]
    BY <1>0, <1>7 DEF LoadBooking, GoTo, db
  <2>2. /\ work'[s].booking = b /\ work'[s].target = w.target /\ work'[s].status = w.status
        /\ work'[s].loaded.status = status[b]
    BY <1>0, <2>1 DEF Work
  <2> QED BY <1>0, <2>1, <2>2 DEF Knows, UpToDate
<1>8. CASE SaveHandler(s)
  <2>1. /\ pc[s] = "write" /\ pc'[s] = "emit" /\ work'[s] = w
    BY <1>0, <1>8 DEF SaveHandler, GoTo, staffVars
  <2>2. /\ b \in Customer /\ w.status \in Reassignable
        /\ status'[b] = Overwrite(status[b], w.loaded.status, w.status)
        /\ Entry(w.status, w.status) \in LogEntry /\ log \in [Customer -> Seq(LogEntry)]
        /\ log' = [log EXCEPT ![b] = Append(@, Entry(w.status, w.status))]
    BY <1>0, <1>8, SavedHandler
  <2>3. Len(log[b]) \in Nat /\ Len(log'[b]) = Len(log[b]) + 1
        /\ log'[b][Len(log'[b])] = Entry(w.status, w.status)
    BY <2>2, Appended
  <2>4. NewStatus(w) = w.status /\ w.status \in Status /\ w.status # "NONE"
    BY <1>0, <2>1, <2>2 DEF NewStatus, Knows, Reassignable, Status
  <2>5. Len(log'[b]) \in 1 .. Len(log'[b])
    BY <2>3
  <2>6. status'[b] # "NONE"
    BY <1>0, <2>2, <2>4, BookingConstants DEF Knows, Overwrite
  <2> QED BY <2>1, <2>2, <2>3, <2>4, <2>5, <2>6 DEF Knows, UpToDate
<1>9. CASE TransientError(s)
  <2>1. pc[s] \in {"refund", "save", "write"}
    BY <1>0, <1>9 DEF TransientError, RestartAt, IInv, TypeOK, ControlOK, StaffLabel
  <2>2. RestartAt[pc[s]] = IF pc[s] = "write" THEN "load" ELSE "read"
    BY <2>1 DEF RestartAt
  <2>3. /\ work'[s] = w /\ status' = status
        /\ pc'[s] = IF pc[s] = "write" THEN "load" ELSE "read"
    BY <1>0, <1>9, <2>2 DEF TransientError, GoTo, staffVars, db
  <2> QED BY <1>0, <2>1, <2>3 DEF Knows, UpToDate
<1> QED BY <1>1, <1>2, <1>3, <1>4, <1>5, <1>6, <1>7, <1>8, <1>9
       DEF StaffStep, EmitStatus, FailStaff

\* No two requests on one booking, if clients keep to that: a request that begins
\* finds nobody on it, and no other changes its booking.
LEMMA StaysExclusive ==
  ASSUME HistoryInv, NEW s \in Staff,
         Begin(s) \/ StaffStep(s) \/ FailStaff(s) \/ TransientError(s)
  PROVE  Exclusive'
<1>0. /\ work \in [Staff -> Work] /\ IInv /\ Exclusive /\ None \notin Customer
      /\ \A o \in Staff \ {s} : work'[o] = work[o]
  BY StaffAlone, BookingConstants DEF HistoryInv, IInv, TypeOK, StaffOK
<1>1. CASE work'[s].booking \in {work[s].booking, None}
  BY <1>0, <1>1 DEF Exclusive
<1>2. CASE OneAtATime /\ \A o \in Staff : work[o].booking # work'[s].booking
  BY <1>0, <1>2 DEF Exclusive
<1>3. Begin(s) => \E d \in Customer :
        work'[s].booking = d /\ (OneAtATime => \A o \in Staff : work[o].booking # d)
  <2> SUFFICES ASSUME Begin(s)
               PROVE  \E d \in Customer :
                 work'[s].booking = d /\ (OneAtATime => \A o \in Staff : work[o].booking # d)
    OBVIOUS
  <2>1. PICK d \in Customer :
          /\ OneAtATime => \A o \in Staff : work[o].booking # d
          /\ \/ \E t \in Target : work' = [work EXCEPT ![s] =
                                 [NoWork EXCEPT !.booking = d, !.target = t]]
             \/ \E a \in Staff : work' = [work EXCEPT ![s] =
                                 [NoWork EXCEPT !.booking = d, !.assignee = a]]
    BY Zenon DEF Begin
  <2>2. work'[s].booking = d
    BY <1>0, <2>1 DEF NoWork
  <2> QED BY <2>1, <2>2
<1>4. Leave(s) => work'[s].booking = None
  BY <1>0 DEF Leave, NoWork
<1>5. (StaffStep(s) \/ TransientError(s)) /\ ~Leave(s) => work'[s].booking = work[s].booking
  BY <1>0 DEF StaffStep, ReadBooking, Refund, SaveStatus, CheckBooking, LoadBooking, SaveHandler,
     EmitStatus, TransientError, staffVars, Work
<1>6. CASE ~OneAtATime
  BY <1>6 DEF Exclusive
<1> QED BY <1>1, <1>2, <1>3, <1>4, <1>5, <1>6 DEF StaffStep, FailStaff

\* While nobody shares a booking, only its own request changes its status.
LEMMA StatusMine ==
  ASSUME HistoryInv, [Next]_vars, OneAtATime, NEW o \in Staff, work[o].booking # None,
         ~SaveStatus(o), ~SaveHandler(o)
  PROVE  status'[work[o].booking] = status[work[o].booking]
<1> DEFINE b == work[o].booking
<1>0. b \in Customer /\ status[b] # "NONE" /\ IInv
  BY DEF HistoryInv, IInv, TypeOK, StaffOK, Work, StaffKnows, Knows
<1>1. ASSUME NEW c \in Customer, Commit(c) PROVE status'[b] = status[b]
  <2>1. c # b
    BY <1>0, <1>1 DEF Commit, HistoryInv, RowsExist, Before, InTransaction
  <2> QED BY <1>0, <1>1, <2>1, Committed
<1>2. ASSUME NEW s \in Staff, SaveStatus(s) \/ SaveHandler(s) PROVE status'[b] = status[b]
  <2>1. work[s].booking # b
    BY <1>2 DEF HistoryInv, Exclusive
  <2> QED BY <1>0, <1>2, <2>1, Saved, SavedHandler
<1> QED BY <1>1, <1>2, Writers DEF db

LEMMA HistoryInit == Init => HistoryInv
<1> SUFFICES ASSUME Init PROVE HistoryInv
  OBVIOUS
<1>1. IInv
  BY InitInv
<1>2. RowsExist
  BY BookingConstants DEF Init, RowsExist, Before, InTransaction
<1>3. StaffKnows /\ Exclusive
  BY BookingConstants DEF Init, StaffKnows, Knows, UpToDate, Exclusive, NoWork
<1> QED BY <1>1, <1>2, <1>3 DEF HistoryInv

\* A booking is born at its COMMIT only.
LEMMA Unborn ==
  ASSUME HistoryInv, [Next]_vars, NEW d \in Customer, status[d] = "NONE", ~Commit(d)
  PROVE  status'[d] = "NONE"
<1>1. ASSUME NEW c \in Customer, Commit(c) PROVE status'[d] = status[d]
  BY <1>1, Committed DEF HistoryInv
<1>2. ASSUME NEW s \in Staff, SaveStatus(s) \/ SaveHandler(s) PROVE status'[d] = status[d]
  <2>1. work[s].booking \in Customer
    BY <1>2, Saved, SavedHandler DEF HistoryInv
  <2>2. work[s].booking # d
    BY <2>1, BookingConstants DEF HistoryInv, StaffKnows, Knows
  <2> QED BY <1>2, <2>2, Saved, SavedHandler DEF HistoryInv
<1> QED BY <1>1, <1>2, Writers DEF db

\* A request whose place is the same has not written.
LEMMA NotMoved ==
  ASSUME IInv, NEW p \in Proc, pc'[p] = pc[p]
  PROVE  ~Commit(p) /\ ~SaveStatus(p) /\ ~SaveHandler(p)
<1>1. pc \in [Proc -> CustomerLabel \cup StaffLabel]
  BY DEF IInv, TypeOK, ControlOK
<1> QED BY <1>1 DEF Commit, SaveStatus, SaveHandler, GoTo

LEMMA RowsExistKept ==
  ASSUME HistoryInv, [Next]_vars,
         \A c \in Customer :
           /\ pc'[c] \in Before => pc[c] \in Before /\ ~Commit(c)
           /\ pc'[c] \in {"store", "emit"} => pc[c] \in {"store", "emit"} \/ Commit(c)
  PROVE  RowsExist'
<1> SUFFICES ASSUME NEW c \in Customer
             PROVE  /\ pc'[c] \in Before => status'[c] = "NONE"
                    /\ pc'[c] \in {"store", "emit"} => status'[c] # "NONE"
                    /\ status'[c] = "NONE" => log'[c] = << >>
  BY DEF RowsExist
<1>1. IInv /\ StaffKnows /\ RowsExist
  BY DEF HistoryInv
<1>2. status'[c] = "NONE" => status[c] = "NONE" /\ log'[c] = log[c]
  BY <1>1, Grows
<1>3. Commit(c) => status'[c] = "PENDING"
  BY <1>1, Committed
<1> QED BY <1>1, <1>2, <1>3, Unborn DEF RowsExist

LEMMA HistoryNext == HistoryInv /\ [Next]_vars => HistoryInv'
<1> SUFFICES ASSUME HistoryInv, [Next]_vars PROVE HistoryInv'
  OBVIOUS
<1>0. /\ IInv /\ IInv' /\ StaffKnows /\ RowsExist /\ Exclusive
      /\ Customer \cap Staff = {} /\ work \in [Staff -> Work]
  BY NextInv, BookingConstants DEF HistoryInv, IInv, TypeOK, StaffOK
<1>1. ASSUME NEW o \in Staff, pc'[o] = pc[o], work'[o] = work[o]
      PROVE  Knows(pc[o], work[o])'
  <2>0. ~SaveStatus(o) /\ ~SaveHandler(o)
    BY <1>0, <1>1, NotMoved
  <2>1. work[o].booking \in Customer \/ pc[o] = "idle"
    BY <1>0 DEF IInv, TypeOK, ControlOK, StaffLabel, WorkFilled
  <2>2. OneAtATime /\ work[o].booking # None =>
          status'[work[o].booking] = status[work[o].booking]
    BY <1>1, <2>0, StatusMine
  <2>3. Knows(pc[o], work[o]) /\ work[o] \in Work
    BY <1>0 DEF StaffKnows
  <2> QED BY <1>0, <1>1, <2>1, <2>2, <2>3, KnowsKept
<1>2. ASSUME \A p \in Proc : pc'[p] = pc[p], UNCHANGED work PROVE HistoryInv'
  <2>1. RowsExist'
    BY <1>0, <1>2, NotMoved, RowsExistKept
  <2> QED BY <1>0, <1>1, <1>2, <2>1 DEF HistoryInv, StaffKnows, Exclusive
<1>3. ASSUME NEW c \in Customer, CustomerStep(c) \/ FailCustomer(c) \/ TransientError(c)
      PROVE  HistoryInv'
  <2>1. UNCHANGED work /\ \A q \in Proc \ {c} : pc'[q] = pc[q]
    BY <1>0, <1>3, CustomerMove
  <2>2. RowsExist'
    BY <1>0, <1>3, <2>1, CustomerMove, NotMoved, RowsExistKept
  <2> QED BY <1>0, <1>1, <2>1, <2>2 DEF HistoryInv, StaffKnows, Exclusive
<1>4. ASSUME NEW s \in Staff, Begin(s) \/ StaffStep(s) \/ FailStaff(s) \/ TransientError(s)
      PROVE  HistoryInv'
  <2>1. /\ \A q \in Proc \ {s} : pc'[q] = pc[q]
        /\ \A o \in Staff \ {s} : work'[o] = work[o]
    BY <1>0, <1>4, StaffAlone
  <2>2. RowsExist'
    BY <1>0, <2>1, NotMoved, RowsExistKept
  <2>3. StaffKnows'
    BY <1>1, <1>4, <2>1, StaffLearns DEF StaffKnows
  <2> QED BY <1>0, <1>4, <2>2, <2>3, StaysExclusive DEF HistoryInv
<1>5. ASSUME NEW k \in Key, ExpireKey(k) PROVE HistoryInv'
  BY <1>2, <1>5 DEF ExpireKey, staffVars
<1>6. CASE UNCHANGED vars
  BY <1>2, <1>6 DEF vars, staffVars
<1> QED BY <1>3, <1>4, <1>5, <1>6 DEF Next, Idle

LEMMA HistoryHolds == Spec => []HistoryInv
<1> QED BY HistoryInit, HistoryNext, PTL DEF Spec

-----------------------------------------------------------------------------
(* Logs, events, answers                                                      *)

\* A reassignment that found no line found the booking as create() left it.
SeenPending ==
  \A s \in Staff : pc[s] \in {"load", "write"} /\ log[work[s].booking] = << >>
    => work[s].status = "PENDING"

LoggedInv == StatusIsLogged /\ SeenPending

\* How a reassignment comes to its SELECT and its UPDATE.
LEMMA ComesToWrite ==
  ASSUME HistoryInv, [Next]_vars, NEW s \in Staff, pc'[s] \in {"load", "write"}
  PROVE  /\ work[s].booking \in Customer /\ work'[s].booking = work[s].booking
         /\ \/ pc[s] \in {"load", "write"} /\ work'[s].status = work[s].status
            \/ /\ status[work[s].booking] \in Reassignable
               /\ work'[s].status = status[work[s].booking]
<1> DEFINE b == work[s].booking
<1>0. /\ IInv /\ pc \in [Proc -> CustomerLabel \cup StaffLabel] /\ work \in [Staff -> Work]
      /\ s \in Proc /\ Customer \cap Staff = {}
      /\ pc[s] \in {"check", "load", "write"} => b \in Customer
  BY BookingConstants DEF HistoryInv, IInv, TypeOK, ControlOK, StaffOK, WorkFilled
<1>1. CASE pc'[s] = pc[s] /\ work'[s] = work[s]
  BY <1>0, <1>1
<1>2. ASSUME NEW c \in Customer, CustomerStep(c) \/ FailCustomer(c) \/ TransientError(c)
      PROVE  pc'[s] = pc[s] /\ work'[s] = work[s]
  BY <1>0, <1>2, CustomerMove
<1>3. ASSUME NEW o \in Staff, o # s, Begin(o) \/ StaffStep(o) \/ FailStaff(o) \/ TransientError(o)
      PROVE  pc'[s] = pc[s] /\ work'[s] = work[s]
  BY <1>0, <1>3, StaffAlone
<1>4. ~Begin(s) /\ ~Leave(s) /\ ~ReadBooking(s) /\ ~Refund(s) /\ ~SaveStatus(s)
      /\ ~SaveHandler(s)
  BY <1>0 DEF Begin, Leave, ReadBooking, Refund, SaveStatus, SaveHandler, GoTo
<1>5. CASE CheckBooking(s)
  <2>1. /\ pc[s] = "check" /\ status[b] \in Reassignable
        /\ work' = [work EXCEPT ![s] = [@ EXCEPT !.status = status[b]]]
    BY <1>4, <1>5 DEF CheckBooking
  <2>2. work'[s].booking = b /\ work'[s].status = status[b]
    BY <1>0, <2>1 DEF Work
  <2> QED BY <1>0, <2>1, <2>2
<1>6. CASE LoadBooking(s)
  <2>1. /\ pc[s] = "load"
        /\ work' = [work EXCEPT ![s] =
                      [@ EXCEPT !.loaded = [status |-> status[b], handler |-> handler[b]]]]
    BY <1>6 DEF LoadBooking
  <2>2. work'[s].booking = b /\ work'[s].status = work[s].status
    BY <1>0, <2>1 DEF Work
  <2> QED BY <1>0, <2>1, <2>2
<1>7. CASE TransientError(s)
  <2>1. pc[s] \in {"refund", "save", "write"}
    BY <1>0, <1>7 DEF TransientError, RestartAt, IInv, TypeOK, ControlOK, StaffLabel
  <2>2. pc'[s] = RestartAt[pc[s]] /\ work' = work
    BY <1>0, <1>7 DEF TransientError, GoTo, staffVars
  <2>3. pc[s] = "write"
    BY <2>1, <2>2 DEF RestartAt
  <2> QED BY <1>0, <2>2, <2>3
<1>8. CASE UNCHANGED <<pc, work>>
  BY <1>1, <1>8
<1> QED BY <1>1, <1>2, <1>3, <1>4, <1>5, <1>6, <1>7, <1>8
       DEF Next, Idle, StaffStep, EmitStatus, FailStaff, ExpireKey, vars, staffVars

LEMMA SeenNext ==
  ASSUME LoggedInv, HistoryInv, [Next]_vars PROVE SeenPending'
<1> SUFFICES ASSUME NEW s \in Staff, pc'[s] \in {"load", "write"},
                    log'[work'[s].booking] = << >>
             PROVE  work'[s].status = "PENDING"
  BY DEF SeenPending
<1>1. PICK b \in Customer :
        /\ b = work[s].booking /\ work'[s].booking = b
        /\ \/ pc[s] \in {"load", "write"} /\ work'[s].status = work[s].status
           \/ status[b] \in Reassignable /\ work'[s].status = status[b]
  BY ComesToWrite
<1>2. log[b] = << >>
  <2>1. log[b] \in Seq(LogEntry)
    BY DEF HistoryInv, IInv, TypeOK, RowsOK, LogEntry
  <2>2. log'[b] = << >> /\ \A i \in 1 .. Len(log[b]) : i \in 1 .. Len(log'[b])
    BY <1>1, Grows DEF HistoryInv
  <2> QED BY <2>1, <2>2
<1>3. CASE pc[s] \in {"load", "write"} /\ work'[s].status = work[s].status
  BY <1>1, <1>2, <1>3 DEF LoggedInv, SeenPending
<1>4. CASE status[b] \in Reassignable /\ work'[s].status = status[b]
  BY <1>2, <1>4 DEF LoggedInv, StatusIsLogged, Reassignable
<1> QED BY <1>1, <1>3, <1>4

LEMMA LoggedNext == LoggedInv /\ HistoryInv /\ [Next]_vars => LoggedInv'
<1> SUFFICES ASSUME LoggedInv, HistoryInv, [Next]_vars PROVE StatusIsLogged'
  BY SeenNext DEF LoggedInv
<1> DEFINE Tells(l, i, st) == l[i].new = st /\ \A j \in i + 1 .. Len(l) : l[j].old = l[j].new
           Told(c) == IF log'[c] = << >> THEN status'[c] \in {"NONE", "PENDING"}
                      ELSE \E i \in 1 .. Len(log'[c]) : Tells(log'[c], i, status'[c])
<1> SUFFICES ASSUME NEW c \in Customer PROVE Told(c)
  BY DEF StatusIsLogged
<1>0. IInv /\ StaffKnows /\ RowsExist
  BY DEF HistoryInv
<1>1. log[c] \in Seq(LogEntry) /\ Len(log[c]) \in Nat
  <2>1. log \in [Customer -> Seq(LogEntry)]
    BY <1>0 DEF IInv, TypeOK, RowsOK, LogEntry
  <2> QED BY <2>1
<1>2. CASE status'[c] = status[c] /\ log'[c] = log[c]
  BY <1>2 DEF LoggedInv, StatusIsLogged
\* A new line that gives the status tells it.
<1>3. ASSUME Len(log'[c]) = Len(log[c]) + 1, log'[c][Len(log'[c])].new = status'[c]
      PROVE  Told(c)
  <2>1. log'[c] # << >> /\ Len(log'[c]) \in 1 .. Len(log'[c])
    BY <1>1, <1>3
  <2>2. Tells(log'[c], Len(log'[c]), status'[c])
    BY <1>1, <1>3
  <2> HIDE DEF Tells
  <2> QED BY <2>1, <2>2
<1>4. CASE Commit(c)
  <2>1. log[c] = << >>
    BY <1>0, <1>4 DEF Commit, RowsExist, Before, InTransaction
  <2>2. CASE log' = log
    BY <1>0, <1>4, <2>1, <2>2, Committed
  <2>3. CASE log' = [log EXCEPT ![c] = Append(@, Entry("NONE", "PENDING"))]
    <3>1. /\ Len(log'[c]) = Len(log[c]) + 1 /\ log'[c][Len(log'[c])] = Entry("NONE", "PENDING")
          /\ status'[c] = "PENDING"
      BY <1>0, <1>4, <2>3, Committed, Appended
    <3> QED BY <1>3, <3>1 DEF Entry
  <2> QED BY <1>0, <1>4, <2>2, <2>3, Committed
<1>5. ASSUME NEW s \in Staff, SaveStatus(s), work[s].booking = c PROVE Told(c)
  <2>1. /\ Len(log'[c]) = Len(log[c]) + 1
        /\ log'[c][Len(log'[c])] = Entry(work[s].status, work[s].target)
        /\ status'[c] = work[s].target
    BY <1>0, <1>5, Saved, Appended
  <2> QED BY <1>3, <2>1 DEF Entry
<1>6. ASSUME NEW s \in Staff, SaveHandler(s), work[s].booking = c PROVE Told(c)
  <2>1. PICK seen : seen = work[s].status
    OBVIOUS
  <2>2. /\ Len(log'[c]) = Len(log[c]) + 1 /\ log'[c][Len(log'[c])] = Entry(seen, seen)
        /\ \A i \in 1 .. Len(log[c]) : log'[c][i] = log[c][i]
        /\ status'[c] = seen \/ status'[c] = status[c]
    BY <1>0, <1>6, <2>1, SavedHandler, Appended DEF Overwrite
  <2>3. CASE status'[c] = seen
    BY <1>3, <2>2, <2>3 DEF Entry
  <2>4. CASE status'[c] = status[c] /\ status[c] # seen
    <3>1. log[c] # << >>
      <4>1. status[c] # "NONE" /\ pc[s] = "write"
        BY <1>0, <1>6, BookingConstants DEF StaffKnows, Knows, SaveHandler
      <4> QED BY <1>6, <2>1, <2>4, <4>1 DEF LoggedInv, StatusIsLogged, SeenPending
    <3>2. PICK i \in 1 .. Len(log[c]) : Tells(log[c], i, status[c])
      BY <3>1 DEF LoggedInv, StatusIsLogged
    <3>3. i \in 1 .. Len(log'[c]) /\ log'[c] # << >> /\ log'[c][i].new = status'[c]
      BY <1>1, <2>2, <2>4, <3>2
    <3>4. ASSUME NEW j \in i + 1 .. Len(log'[c]) PROVE log'[c][j].old = log'[c][j].new
      <4>1. CASE j = Len(log'[c])
        BY <2>2, <4>1 DEF Entry
      <4>2. CASE j # Len(log'[c])
        <5>1. j \in i + 1 .. Len(log[c]) /\ j \in 1 .. Len(log[c])
          BY <1>1, <2>2, <4>2
        <5> QED BY <2>2, <3>2, <5>1
      <4> QED BY <4>1, <4>2
    <3> QED BY <3>3, <3>4
  <2> QED BY <2>2, <2>3, <2>4
<1> HIDE DEF Told
<1>7. ASSUME NEW d \in Customer, Commit(d), d # c
      PROVE  status'[c] = status[c] /\ log'[c] = log[c]
  BY <1>0, <1>7, Committed
<1>8. ASSUME NEW s \in Staff, SaveStatus(s) \/ SaveHandler(s), work[s].booking # c
      PROVE  status'[c] = status[c] /\ log'[c] = log[c]
  BY <1>0, <1>8, Saved, SavedHandler
<1> QED BY <1>2, <1>4, <1>5, <1>6, <1>7, <1>8, Writers DEF db

LEMMA LoggedInit == Init => LoggedInv
  BY BookingConstants DEF Init, LoggedInv, StatusIsLogged, SeenPending

\* However updateStatus() and reassignStaff() race, fail and are retried, a line
\* of its log gives a booking its status and no later line moves the booking;
\* a booking without any line is as create() left it.
THEOREM StatusAlwaysLogged == Spec => []StatusIsLogged
<1>1. LoggedInv => StatusIsLogged
  BY DEF LoggedInv
<1> QED BY <1>1, LoggedInit, LoggedNext, HistoryHolds, PTL DEF Spec

LEMMA AnnouncedNext == EventsAreCommitted /\ HistoryInv /\ [Next]_vars => EventsAreCommitted'
<1> SUFFICES ASSUME EventsAreCommitted, HistoryInv, [Next]_vars, NEW e \in events'
             PROVE  IF e.old = "NONE" THEN status'[e.booking] # "NONE"
                    ELSE \E i \in 1 .. Len(log'[e.booking]) :
                           log'[e.booking][i] = Entry(e.old, e.new)
  BY DEF EventsAreCommitted
<1>0. IInv /\ IInv' /\ StaffKnows /\ RowsExist
  BY NextInv DEF HistoryInv
<1>1. e.booking \in Customer
  BY <1>0 DEF IInv, TypeOK, SharedOK
<1>2. CASE e \in events
  <2>1. IF e.old = "NONE" THEN status[e.booking] # "NONE"
        ELSE \E i \in 1 .. Len(log[e.booking]) : log[e.booking][i] = Entry(e.old, e.new)
    BY <1>2 DEF EventsAreCommitted
  <2>2. /\ status'[e.booking] = "NONE" => status[e.booking] = "NONE"
        /\ \A i \in 1 .. Len(log[e.booking]) :
             i \in 1 .. Len(log'[e.booking]) /\ log'[e.booking][i] = log[e.booking][i]
    BY <1>0, <1>1, Grows
  <2>3. CASE e.old = "NONE"
    BY <2>1, <2>2, <2>3
  <2>4. CASE e.old # "NONE"
    <3>1. PICK i \in 1 .. Len(log[e.booking]) : log[e.booking][i] = Entry(e.old, e.new)
      BY <2>1, <2>4
    <3>2. i \in 1 .. Len(log'[e.booking]) /\ log'[e.booking][i] = Entry(e.old, e.new)
      BY <2>2, <3>1
    <3> QED BY <2>4, <3>2
  <2> QED BY <2>3, <2>4
<1>3. ASSUME NEW c \in Customer, EmitCreated(c), e = Event(c, "NONE", "PENDING")
      PROVE  e.old = "NONE" /\ status'[e.booking] # "NONE"
  BY <1>0, <1>3 DEF Event, EmitCreated, RowsExist, db
<1>4. ASSUME NEW s \in Staff, EmitStatus(s),
             e = Event(work[s].booking, work[s].status, NewStatus(work[s]))
      PROVE  /\ e.old # "NONE"
             /\ \E i \in 1 .. Len(log'[e.booking]) :
                  log'[e.booking][i] = Entry(e.old, e.new)
  <2>1. /\ work[s].status \in Status
        /\ \E i \in 1 .. Len(log[work[s].booking]) :
             log[work[s].booking][i] = Entry(work[s].status, NewStatus(work[s]))
        /\ log' = log
    BY <1>0, <1>4 DEF EmitStatus, StaffKnows, Knows, db
  <2>2. /\ e.booking = work[s].booking /\ e.old = work[s].status
        /\ e.new = NewStatus(work[s])
    BY <1>4 DEF Event
  <2> QED BY <2>1, <2>2 DEF Status
<1>5. \/ events' = events
      \/ \E c \in Customer : EmitCreated(c) /\ events' = events \cup {Event(c, "NONE", "PENDING")}
      \/ \E s \in Staff : EmitStatus(s) /\ events' = events \cup
           {Event(work[s].booking, work[s].status, NewStatus(work[s]))}
  <2>1. ASSUME NEW c \in Customer, CustomerStep(c) \/ FailCustomer(c), ~EmitCreated(c)
        PROVE  events' = events
    BY <2>1 DEF CustomerStep, CheckKey, ReadRoom, Reserve, Insert, Assign, Commit, StoreKey,
       FailCustomer
  <2>2. ASSUME NEW s \in Staff, Begin(s) \/ StaffStep(s) \/ FailStaff(s), ~EmitStatus(s)
        PROVE  events' = events
    BY <2>2 DEF StaffStep, Begin, ReadBooking, Refund, SaveStatus, CheckBooking, LoadBooking,
       SaveHandler, FailStaff
  <2>3. ASSUME NEW c \in Customer, EmitCreated(c)
        PROVE  events' = events \cup {Event(c, "NONE", "PENDING")}
    BY <2>3 DEF EmitCreated
  <2>4. ASSUME NEW s \in Staff, EmitStatus(s)
        PROVE  events' = events \cup
                 {Event(work[s].booking, work[s].status, NewStatus(work[s]))}
    BY <2>4 DEF EmitStatus, NewStatus
  <2>5. ASSUME NEW p \in Proc, TransientError(p) PROVE events' = events
    BY <2>5 DEF TransientError
  <2>6. ASSUME NEW k \in Key, ExpireKey(k) PROVE events' = events
    BY <2>6 DEF ExpireKey
  <2>7. CASE UNCHANGED vars
    BY <2>7 DEF vars
  <2> QED BY <2>1, <2>2, <2>3, <2>4, <2>5, <2>6, <2>7 DEF Next, Idle
<1> QED BY <1>2, <1>3, <1>4, <1>5

\* The gateway announces nothing that a crash or a roll back could take away.
THEOREM EventsAlwaysCommitted == Spec => []EventsAreCommitted
<1>1. Init => EventsAreCommitted
  BY DEF Init, EventsAreCommitted
<1>2. EventsAreCommitted /\ HistoryInv /\ [Next]_vars => EventsAreCommitted'
  BY AnnouncedNext
<1> QED BY <1>1, <1>2, HistoryHolds, PTL DEF Spec

LEMMA AnsweredNext == AnswerIsDurable /\ HistoryInv /\ [Next]_vars => AnswerIsDurable'
<1> SUFFICES ASSUME AnswerIsDurable, HistoryInv, [Next]_vars PROVE AnswerIsDurable'
  OBVIOUS
<1>0. /\ IInv /\ StaffKnows /\ RowsExist /\ req' = req
      /\ answer \in [Customer -> Customer \cup {None}] /\ stored \in [Key -> Customer \cup {None}]
      /\ req \in [Customer -> Request] /\ None \notin Customer /\ None \notin Key
  BY Writers, BookingConstants DEF HistoryInv, IInv, TypeOK, CustomerOK, SharedOK
<1>1. \A d \in Customer : status[d] # "NONE" => status'[d] # "NONE"
  BY <1>0, Grows
<1> DEFINE Kept(c, d) == d \in Customer /\ status[d] # "NONE" /\ (d = c \/ SameKey(c, d))
           Found(k, d) == d \in Customer /\ status[d] # "NONE" /\ req[d].key = k
<1>2. ASSUME \A c \in Customer : answer'[c] = None \/ answer'[c] = answer[c] \/ Kept(c, answer'[c]),
             \A k \in Key : stored'[k] = None \/ stored'[k] = stored[k] \/ Found(k, stored'[k])
      PROVE  AnswerIsDurable'
  <2>1. \A c \in Customer : answer[c] # None => Kept(c, answer[c])
    BY <1>0 DEF AnswerIsDurable
  <2>2. \A k \in Key : stored[k] # None => Found(k, stored[k])
    BY <1>0 DEF AnswerIsDurable
  <2> QED BY <1>0, <1>1, <1>2, <2>1, <2>2 DEF AnswerIsDurable, SameKey
<1>3. ASSUME NEW c \in Customer, CheckKey(c) PROVE AnswerIsDurable'
  <2>1. req[c].key \in Key \cup {None} /\ stored' = stored
    BY <1>0, <1>3 DEF Request, CheckKey
  <2>2. answer' = answer \/ (req[c].key # None /\ stored[req[c].key] # None
                             /\ answer' = [answer EXCEPT ![c] = stored[req[c].key]])
    BY <1>3 DEF CheckKey
  <2>3. CASE answer' = answer
    BY <1>2, <2>1, <2>3
  <2>4. CASE req[c].key # None /\ stored[req[c].key] # None
             /\ answer' = [answer EXCEPT ![c] = stored[req[c].key]]
    <3>1. Kept(c, stored[req[c].key])
      BY <1>0, <2>1, <2>4 DEF AnswerIsDurable, SameKey
    <3>2. \A d \in Customer : answer'[d] = answer[d] \/ Kept(d, answer'[d])
      BY <1>0, <2>4, <3>1
    <3> QED BY <1>2, <2>1, <3>2
  <2> QED BY <2>2, <2>3, <2>4
<1>4. ASSUME NEW c \in Customer, EmitCreated(c) PROVE AnswerIsDurable'
  <2>1. status[c] # "NONE"
    BY <1>0, <1>4 DEF EmitCreated, RowsExist
  <2> QED BY <1>0, <1>2, <1>4, <2>1 DEF EmitCreated
<1>5. ASSUME NEW c \in Customer, StoreKey(c) PROVE AnswerIsDurable'
  <2>1. status[c] # "NONE" /\ answer' = answer
    BY <1>0, <1>5 DEF StoreKey, RowsExist, customerVars
  <2>2. stored' = stored \/ stored' = [stored EXCEPT ![req[c].key] = c]
    BY <1>5 DEF StoreKey
  <2>3. \A k \in Key : stored'[k] = stored[k] \/ Found(k, stored'[k])
    BY <1>0, <2>1, <2>2
  <2> QED BY <1>2, <2>1, <2>3
<1>6. ASSUME NEW k \in Key, ExpireKey(k) PROVE AnswerIsDurable'
  BY <1>0, <1>2, <1>6 DEF ExpireKey, customerVars
<1>7. ASSUME UNCHANGED <<answer, stored>> PROVE AnswerIsDurable'
  BY <1>2, <1>7
<1>8. ASSUME NEW c \in Customer, CustomerStep(c) \/ FailCustomer(c),
             ~CheckKey(c), ~EmitCreated(c), ~StoreKey(c)
      PROVE  AnswerIsDurable'
  BY <1>7, <1>8 DEF CustomerStep, ReadRoom, Reserve, Insert, Assign, Commit,
     FailCustomer, customerVars
<1>9. ASSUME NEW s \in Staff, Begin(s) \/ StaffStep(s) \/ FailStaff(s) PROVE AnswerIsDurable'
  BY <1>7, <1>9 DEF StaffStep, Begin, ReadBooking, Refund, SaveStatus, CheckBooking,
     LoadBooking, SaveHandler, EmitStatus, FailStaff, customerVars
<1>10. ASSUME NEW p \in Proc, TransientError(p) PROVE AnswerIsDurable'
  BY <1>7, <1>10 DEF TransientError, customerVars
<1>11. CASE UNCHANGED vars
  BY <1>7, <1>11 DEF vars, customerVars
<1> QED BY <1>3, <1>4, <1>5, <1>6, <1>8, <1>9, <1>10, <1>11 DEF Next, Idle

\* What a client was answered, or Redis remembers, is a committed booking of a
\* request with that key.
THEOREM AnswersAreDurable == Spec => []AnswerIsDurable
<1>1. Init => AnswerIsDurable
  BY DEF Init, AnswerIsDurable
<1>2. AnswerIsDurable /\ HistoryInv /\ [Next]_vars => AnswerIsDurable'
  BY AnsweredNext
<1> QED BY <1>1, <1>2, HistoryHolds, PTL DEF Spec
-----------------------------------------------------------------------------
(* One history per booking, while nobody shares it                            *)

\* A line that starts at the present status and ends at the next continues the log.
LEMMA Continued ==
  ASSUME StatusLogged, LogIsChain, NEW c \in Customer, NEW old, NEW new,
         log \in [Customer -> Seq(LogEntry)], Entry(old, new) \in LogEntry,
         log' = [log EXCEPT ![c] = Append(@, Entry(old, new))],
         status'[c] = new,
         \/ old = status[c] /\ old # "NONE"
         \/ log[c] = << >> /\ old = "NONE" /\ new = "PENDING",
         \A d \in Customer \ {c} : status'[d] = status[d]
  PROVE  (StatusLogged /\ LogIsChain)'
<1>1. /\ Len(log'[c]) = Len(log[c]) + 1 /\ log'[c][Len(log'[c])] = Entry(old, new)
      /\ log'[c] # << >>
      /\ \A i \in 1 .. Len(log[c]) : log'[c][i] = log[c][i]
      /\ \A d \in Customer \ {c} : log'[d] = log[d]
  BY Appended
<1>2. Len(log[c]) \in Nat /\ (log[c] = << >> <=> Len(log[c]) = 0)
  <2>1. log[c] \in Seq(LogEntry)
    OBVIOUS
  <2> QED BY <2>1
<1>3. StatusLogged'
  BY <1>1 DEF StatusLogged, Entry
<1>4. ASSUME NEW i \in 1 .. Len(log'[c])
      PROVE  log'[c][i].old = IF i > 1 THEN log'[c][i - 1].new
                              ELSE IF log'[c][i].new = "PENDING" /\ log'[c][i].old = "NONE"
                                     THEN "NONE" ELSE "PENDING"
  <2>1. CASE i \in 1 .. Len(log[c])
    <3>1. i > 1 => i - 1 \in 1 .. Len(log[c])
      BY <1>2
    <3> QED BY <1>1, <2>1, <3>1 DEF LogIsChain
  <2>2. CASE i = Len(log[c]) + 1 /\ Len(log[c]) > 0
    <3>1. i > 1 /\ i - 1 = Len(log[c]) /\ Len(log[c]) \in 1 .. Len(log[c])
      BY <1>2, <2>2
    <3>2. log'[c][i].old = old /\ old = status[c]
      BY <1>1, <1>2, <2>2 DEF Entry
    <3>3. status[c] = log[c][Len(log[c])].new
      BY <1>2, <2>2 DEF StatusLogged
    <3> QED BY <1>1, <3>1, <3>2, <3>3
  <2>3. CASE i = 1 /\ Len(log[c]) = 0
    <3>1. log'[c][i].old = old /\ log'[c][i].new = new
      BY <1>1, <2>3 DEF Entry
    <3>2. status[c] \in {"NONE", "PENDING"}
      BY <1>2, <2>3 DEF StatusLogged
    <3> QED BY <2>3, <3>1, <3>2
  <2> QED BY <1>1, <1>2, <2>1, <2>2, <2>3
<1>5. LogIsChain'
  BY <1>1, <1>4 DEF LogIsChain
<1> QED BY <1>3, <1>5

LEMMA ChainNext ==
  ASSUME OneAtATime, StatusLogged, LogIsChain, HistoryInv, [Next]_vars
  PROVE  (StatusLogged /\ LogIsChain)'
<1>0. IInv /\ StaffKnows /\ RowsExist
  BY DEF HistoryInv
<1>1. CASE UNCHANGED db
  BY <1>1 DEF db, StatusLogged, LogIsChain
<1>2. ASSUME NEW c \in Customer, Commit(c) PROVE (StatusLogged /\ LogIsChain)'
  <2>1. log[c] = << >>
    BY <1>0, <1>2 DEF Commit, RowsExist, Before, InTransaction
  <2>2. CASE log' = log
    <3>1. LogIsChain'
      BY <2>2 DEF LogIsChain
    <3>2. StatusLogged'
      BY <1>0, <1>2, <2>1, <2>2, Committed DEF StatusLogged
    <3> QED BY <3>1, <3>2
  <2>3. CASE log' = [log EXCEPT ![c] = Append(@, Entry("NONE", "PENDING"))]
    <3>1. /\ status'[c] = "PENDING" /\ \A d \in Customer \ {c} : status'[d] = status[d]
          /\ Entry("NONE", "PENDING") \in LogEntry /\ log \in [Customer -> Seq(LogEntry)]
      BY <1>0, <1>2, Committed
    <3> QED BY <2>1, <2>3, <3>1, Continued
  <2> QED BY <1>0, <1>2, <2>2, <2>3, Committed
<1>3. ASSUME NEW s \in Staff, SaveStatus(s) PROVE (StatusLogged /\ LogIsChain)'
  <2>1. work[s].status = status[work[s].booking] /\ work[s].status # "NONE"
    BY <1>0, <1>3 DEF SaveStatus, StaffKnows, Knows, UpToDate, Status
  <2> QED BY <1>0, <1>3, <2>1, Saved, Continued
<1>4. ASSUME NEW s \in Staff, SaveHandler(s) PROVE (StatusLogged /\ LogIsChain)'
  <2>1. /\ work[s].status = status[work[s].booking]
        /\ work[s].loaded.status = status[work[s].booking]
    BY <1>0, <1>4 DEF SaveHandler, StaffKnows, Knows, UpToDate
  <2>2. status'[work[s].booking] = work[s].status /\ work[s].status # "NONE"
    BY <1>0, <1>4, <2>1, SavedHandler DEF Overwrite, Reassignable
  <2> DEFINE b == work[s].booking  seen == work[s].status
  <2>3. /\ b \in Customer /\ Entry(seen, seen) \in LogEntry
        /\ log \in [Customer -> Seq(LogEntry)]
        /\ log' = [log EXCEPT ![b] = Append(@, Entry(seen, seen))]
        /\ \A d \in Customer \ {b} : status'[d] = status[d]
    BY <1>0, <1>4, SavedHandler
  <2> HIDE DEF b, seen
  <2>4. status'[b] = seen /\ seen = status[b] /\ seen # "NONE"
    BY <2>1, <2>2 DEF b, seen
  <2> QED BY <2>3, <2>4, Continued
<1> QED BY <1>1, <1>2, <1>3, <1>4, Writers

\* Employees who do not work on one booking at once leave one history of it.
THEOREM LogsAreChains == ASSUME OneAtATime PROVE Spec => []LogIsChain
<1>1. Init => ChainInv
  BY DEF Init, ChainInv, StatusLogged, LogIsChain
<1>2. ChainInv /\ HistoryInv /\ [Next]_vars => ChainInv'
  BY ChainNext DEF ChainInv
<1>3. ChainInv => LogIsChain
  BY DEF ChainInv
<1> QED BY <1>1, <1>2, <1>3, HistoryHolds, PTL DEF Spec
-----------------------------------------------------------------------------
(* Retries with a key                                                         *)

\* What a step does to keys, and who comes to hold an answer by it.
LEMMA KeySteps ==
  ASSUME IInv, ~KeysExpire, [Next]_vars
  PROVE  /\ \A k \in Key : stored[k] # None => stored'[k] # None
         /\ \A d \in Customer :
              /\ pc'[d] \in {"emit", "done"} =>
                   pc[d] \in {"emit", "done"} \/ StoreKey(d) \/ CheckKey(d)
              /\ pc[d] = "done" => pc'[d] = "done"
              /\ late'[d] => late[d] \/ CheckKey(d)
<1>0. /\ pc \in [Proc -> CustomerLabel \cup StaffLabel] /\ late \in [Customer -> BOOLEAN]
      /\ stored \in [Key -> Customer \cup {None}] /\ None \notin Customer
      /\ Customer \cap Staff = {} /\ \A d \in Customer : pc[d] \in CustomerLabel
  BY BookingConstants DEF IInv, TypeOK, ControlOK, CustomerOK, SharedOK
<1>1. ASSUME NEW c \in Customer, CustomerStep(c) \/ FailCustomer(c)
      PROVE  /\ \A d \in Customer \ {c} : pc'[d] = pc[d] /\ late'[d] = late[d]
             /\ pc[c] # "done" /\ (CheckKey(c) \/ late' = late)
             /\ pc'[c] \in {"emit", "done"} =>
                  pc[c] \in {"emit", "done"} \/ StoreKey(c) \/ CheckKey(c)
  BY <1>0, <1>1 DEF CustomerStep, CheckKey, ReadRoom, Reserve, Insert, Assign, Commit, StoreKey,
     EmitCreated, FailCustomer, customerVars, GoTo, Final
<1>2. ASSUME NEW c \in Customer, CustomerStep(c) \/ FailCustomer(c)
      PROVE  \A k \in Key : stored[k] # None => stored'[k] # None
  <2>1. stored' = stored \/ stored' = [stored EXCEPT ![req[c].key] = c]
    BY <1>2 DEF CustomerStep, CheckKey, ReadRoom, Reserve, Insert, Assign, Commit, StoreKey,
       EmitCreated, FailCustomer
  <2> QED BY <1>0, <2>1
<1>3. ASSUME NEW s \in Staff, Begin(s) \/ StaffStep(s) \/ FailStaff(s)
      PROVE  stored' = stored /\ late' = late /\ \A d \in Customer : pc'[d] = pc[d]
  <2>1. \A d \in Customer : pc'[d] = pc[d]
    BY <1>0, <1>3, StaffAlone
  <2>2. stored' = stored /\ late' = late
    BY <1>3 DEF StaffStep, ReadBooking, Refund, SaveStatus, CheckBooking, LoadBooking,
       SaveHandler, EmitStatus, FailStaff, Begin, customerVars
  <2> QED BY <2>1, <2>2
<1>4. ASSUME NEW p \in Proc, TransientError(p)
      PROVE  /\ stored' = stored /\ late' = late
             /\ \A d \in Customer : pc'[d] = pc[d]
                  \/ (pc[d] \in DOMAIN RestartAt /\ pc'[d] = RestartAt[pc[d]])
  BY <1>0, <1>4 DEF TransientError, GoTo, customerVars
<1>5. \A l \in DOMAIN RestartAt : l # "done" /\ RestartAt[l] \notin {"emit", "done"}
  BY DEF RestartAt
<1>6. CASE UNCHANGED vars
  BY <1>6 DEF vars, customerVars
<1>7. ASSUME NEW k \in Key, ExpireKey(k) PROVE FALSE
  BY <1>7 DEF ExpireKey
<1> HIDE DEF Proc
<1> QED BY <1>1, <1>2, <1>3, <1>4, <1>5, <1>6, <1>7 DEF Next, Idle

\* A client that retries after its answer came books nothing more, as long as
\* Redis answers and keeps the key.
THEOREM LateRetriesBookNothing ==
  ASSUME ~RedisFaults, ~KeysExpire PROVE Spec => []LateRetryBooksNothing
<1>1. Init => KeyInv
  BY BookingConstants DEF Init, KeyInv
<1>2. KeyInv /\ HistoryInv /\ [Next]_vars => KeyInv'
  <2> SUFFICES ASSUME KeyInv, HistoryInv, [Next]_vars, NEW c \in Customer
               PROVE  /\ (pc[c] \in {"emit", "done"} /\ req[c].key # None
                           => stored[req[c].key] # None)'
                      /\ (late[c] => pc[c] = "done" /\ status[c] = "NONE")'
    BY DEF KeyInv
  <2>0. /\ IInv /\ RowsExist /\ req' = req /\ req[c].key \in Key \cup {None}
        /\ late \in [Customer -> BOOLEAN] /\ c \in Proc
        /\ pc \in [Proc -> CustomerLabel \cup StaffLabel]
        /\ stored \in [Key -> Customer \cup {None}] /\ None \notin Customer
    BY Writers, BookingConstants
       DEF HistoryInv, IInv, TypeOK, CustomerOK, ControlOK, SharedOK, Request
  <2>1. \A k \in Key : stored[k] # None => stored'[k] # None
    BY <2>0, KeySteps
  <2>2. CASE CheckKey(c)
    <3>1. (\E d \in Customer \ {c} : SameKey(c, d) /\ pc[d] = "done")
            => req[c].key # None /\ stored[req[c].key] # None
      BY DEF KeyInv, SameKey
    <3>2. /\ late'[c] => \E d \in Customer \ {c} : SameKey(c, d) /\ pc[d] = "done"
          /\ IF req[c].key # None /\ stored[req[c].key] # None
               THEN pc'[c] = "done" ELSE pc'[c] = "room"
      BY <2>0, <2>2 DEF CheckKey, GoTo
    <3>3. status'[c] = "NONE" /\ stored' = stored
      BY <2>0, <2>2 DEF CheckKey, RowsExist, Before, db
    <3> QED BY <2>0, <3>1, <3>2, <3>3
  <2>3. CASE StoreKey(c)
    <3>1. req[c].key # None => stored'[req[c].key] = c
      BY <2>0, <2>3 DEF StoreKey
    <3>2. ~late'[c]
      BY <2>3 DEF StoreKey, KeyInv, customerVars
    <3> QED BY <2>0, <3>1, <3>2
  <2>4. CASE ~CheckKey(c) /\ ~StoreKey(c)
    <3>1. pc'[c] \in {"emit", "done"} => pc[c] \in {"emit", "done"}
      BY <2>0, <2>4, KeySteps
    <3>2. late'[c] => late[c] /\ pc[c] = "done" /\ pc'[c] = "done" /\ status[c] = "NONE"
      BY <2>0, <2>4, KeySteps DEF KeyInv
    <3>3. pc[c] = "done" => ~Commit(c)
      BY DEF Commit
    <3>4. late'[c] => status'[c] = "NONE"
      BY <3>2, <3>3, Unborn
    <3> QED BY <2>0, <2>1, <3>1, <3>2, <3>4 DEF KeyInv
  <2> QED BY <2>2, <2>3, <2>4
<1>3. KeyInv => LateRetryBooksNothing
  BY DEF KeyInv, LateRetryBooksNothing
<1> QED BY <1>1, <1>2, <1>3, HistoryHolds, PTL DEF Spec
-----------------------------------------------------------------------------
(* Rooms are neither lost nor made                                            *)

Units(b) == {b} \X (1 .. req[b].qty)

\* A booking of n rooms is n units.
LEMMA UnitsCounted ==
  ASSUME NEW b, req[b].qty \in Nat
  PROVE  IsFiniteSet(Units(b)) /\ Cardinality(Units(b)) = req[b].qty
<1> DEFINE n == req[b].qty
           f == [i \in 1 .. n |-> <<b, i>>]
<1>1. IsFiniteSet(1 .. n) /\ Cardinality(1 .. n) = n
  <2>1. n \in Int /\ (IF 1 > n THEN 0 ELSE n - 1 + 1) = n
    OBVIOUS
  <2> HIDE DEF n
  <2> QED BY <2>1, FS_Interval
<1>2. f \in Bijection(1 .. n, Units(b))
  BY DEF Bijection, Injection, Surjection, IsInjective, Units
<1> QED BY <1>1, <1>2, FS_Bijection DEF ExistsBijection

\* A set that grows, or shrinks, by another.
LEMMA Joined ==
  ASSUME NEW S, NEW T, IsFiniteSet(S), IsFiniteSet(T), S \cap T = {}
  PROVE  IsFiniteSet(S \cup T) /\ Cardinality(S \cup T) = Cardinality(S) + Cardinality(T)
<1>1. Cardinality(S) \in Nat /\ Cardinality(T) \in Nat
  BY FS_CardinalityType
<1> QED BY <1>1, FS_Union, FS_EmptySet

LEMMA Parted ==
  ASSUME NEW S, NEW T, IsFiniteSet(S), T \subseteq S
  PROVE  /\ IsFiniteSet(S \ T) /\ IsFiniteSet(T)
         /\ Cardinality(S \ T) + Cardinality(T) = Cardinality(S)
<1>1. IsFiniteSet(S \ T) /\ IsFiniteSet(T)
  BY FS_Subset
<1>2. (S \ T) \cup T = S /\ (S \ T) \cap T = {}
  OBVIOUS
<1> QED BY <1>1, <1>2, Joined

\* How one booking's new status changes what is held in each room.
LEMMA Recounted ==
  ASSUME IInv, UNCHANGED req, NEW b \in Customer,
         NEW room, room = req[b].room, NEW n, n = req[b].qty,
         \A d \in Customer \ {b} : status'[d] = status[d],
         \A r \in Room : IsFiniteSet(HeldUnits(r))
  PROVE  /\ \A r \in Room : IsFiniteSet(HeldUnits(r)') /\ Cardinality(HeldUnits(r)) \in Nat
         /\ \A r \in Room : Cardinality(HeldUnits(r)') \in Nat
         /\ \A r \in Room : r # room => HeldUnits(r)' = HeldUnits(r)
         /\ (status[b] \in Holding <=> status'[b] \in Holding)
              => HeldUnits(room)' = HeldUnits(room)
         /\ status[b] \notin Holding /\ status'[b] \in Holding
              => Cardinality(HeldUnits(room)') = Cardinality(HeldUnits(room)) + n
         /\ status[b] \in Holding /\ status'[b] \notin Holding
              => Cardinality(HeldUnits(room)') + n = Cardinality(HeldUnits(room))
<1> DEFINE U == Units(b)
<1>0. req[b].qty \in 1 .. MaxQty /\ n \in Nat /\ room \in Room
  BY BookingConstants DEF IInv, TypeOK, CustomerOK, Request
<1>1. IsFiniteSet(U) /\ Cardinality(U) = n
  BY <1>0, UnitsCounted
<1>2. /\ \A r \in Room : r # room => HeldUnits(r)' = HeldUnits(r)
      /\ (status[b] \in Holding <=> status'[b] \in Holding)
           => HeldUnits(room)' = HeldUnits(room)
  BY DEF HeldUnits
<1>3. status[b] \notin Holding /\ status'[b] \in Holding
        => HeldUnits(room)' = HeldUnits(room) \cup U /\ HeldUnits(room) \cap U = {}
  BY <1>0, BookingConstants DEF HeldUnits, Units
<1>4. status[b] \in Holding /\ status'[b] \notin Holding
        => HeldUnits(room)' = HeldUnits(room) \ U /\ U \subseteq HeldUnits(room)
  BY <1>0, BookingConstants DEF HeldUnits, Units
<1>5. \A r \in Room : Cardinality(HeldUnits(r)) \in Nat
  BY FS_CardinalityType
<1> HIDE DEF U
<1>6. status[b] \notin Holding /\ status'[b] \in Holding
        => /\ IsFiniteSet(HeldUnits(room)')
           /\ Cardinality(HeldUnits(room)') = Cardinality(HeldUnits(room)) + n
  BY <1>0, <1>1, <1>3, Joined
<1>7. status[b] \in Holding /\ status'[b] \notin Holding
        => /\ IsFiniteSet(HeldUnits(room)')
           /\ Cardinality(HeldUnits(room)') + n = Cardinality(HeldUnits(room))
  BY <1>0, <1>1, <1>4, Parted
<1>8. \A r \in Room : IsFiniteSet(HeldUnits(r)')
  BY <1>0, <1>2, <1>6, <1>7
<1>9. \A r \in Room : Cardinality(HeldUnits(r)') \in Nat
  BY <1>8, FS_CardinalityType
<1> QED BY <1>2, <1>5, <1>6, <1>7, <1>8, <1>9

LEMMA RoomOf ==
  ASSUME IInv, NEW b \in Customer
  PROVE  /\ req[b].room \in Room /\ req[b].qty \in Nat
         /\ available \in [Room -> Nat] /\ Stock \in [Room -> Nat]
  BY BookingConstants DEF IInv, TypeOK, RowsOK, CustomerOK, Request

\* What the three writers do to held and available rooms together.
LEMMA CommitCounts ==
  ASSUME HistoryInv, CountInv, NEW c \in Customer, Commit(c) PROVE CountInv'
<1>1. PICK room, n : room = req[c].room /\ n = req[c].qty
  OBVIOUS
<1>2. /\ IInv /\ RowsExist /\ UNCHANGED req /\ available' = [available EXCEPT ![room] = @ - n]
      /\ pc[c] = "commit"
  BY <1>1 DEF HistoryInv, Commit
<1>3. status[c] = "NONE" /\ status'[c] = "PENDING"
      /\ \A d \in Customer \ {c} : status'[d] = status[d]
  BY <1>2, Committed DEF RowsExist, Before, InTransaction
<1>4. status[c] \notin Holding /\ status'[c] \in Holding
  BY <1>3 DEF Holding, Status, Refunding
<1>5. \A r \in Room : IsFiniteSet(HeldUnits(r))
  BY DEF CountInv
<1>6. /\ \A r \in Room : IsFiniteSet(HeldUnits(r)') /\ Cardinality(HeldUnits(r)) \in Nat
      /\ \A r \in Room : r # room => HeldUnits(r)' = HeldUnits(r)
      /\ Cardinality(HeldUnits(room)') = Cardinality(HeldUnits(room)) + n
  BY <1>1, <1>2, <1>3, <1>4, <1>5, Recounted
<1>7. room \in Room /\ n \in Nat /\ available \in [Room -> Nat] /\ Stock \in [Room -> Nat]
  BY <1>1, <1>2, RoomOf
<1>8. \A r \in Room : available'[r] + Cardinality(HeldUnits(r)')
                        = available[r] + Cardinality(HeldUnits(r))
  BY <1>2, <1>6, <1>7
<1> QED BY <1>6, <1>8 DEF CountInv, NoRoomLost, InventoryExact

LEMMA SaveStatusCounts ==
  ASSUME HistoryInv, CountInv, NEW s \in Staff, SaveStatus(s) PROVE CountInv'
<1>1. PICK b, t : b = work[s].booking /\ t = work[s].target
  OBVIOUS
<1>2. PICK room, n : room = req[b].room /\ n = req[b].qty
  OBVIOUS
<1>3. /\ IInv /\ StaffKnows /\ b \in Customer /\ t \in Target /\ UNCHANGED req
      /\ status'[b] = t /\ \A d \in Customer \ {b} : status'[d] = status[d]
  BY <1>1, Saved DEF HistoryInv, SaveStatus, customerVars
<1>4. available' = IF t \in Refunding THEN [available EXCEPT ![room] = @ + n] ELSE available
  BY <1>1, <1>2 DEF SaveStatus, RefundedQty
<1>5. t \in Refunding <=> status'[b] \notin Holding
  BY <1>3 DEF Holding, Target
<1>6. OneAtATime => status[b] \in Holding
  <2>1. OneAtATime => status[b] \in Status /\ t \in ValidNext[status[b]]
    BY <1>1, <1>3 DEF SaveStatus, StaffKnows, Knows, UpToDate
  <2> QED BY <2>1 DEF ValidNext, Status, Holding, Refunding
<1>7. \A r \in Room : IsFiniteSet(HeldUnits(r))
  BY DEF CountInv
<1>8. /\ \A r \in Room : IsFiniteSet(HeldUnits(r)') /\ Cardinality(HeldUnits(r)) \in Nat
      /\ \A r \in Room : Cardinality(HeldUnits(r)') \in Nat
      /\ \A r \in Room : r # room => HeldUnits(r)' = HeldUnits(r)
      /\ (status[b] \in Holding <=> status'[b] \in Holding)
           => HeldUnits(room)' = HeldUnits(room)
      /\ status[b] \notin Holding /\ status'[b] \in Holding
           => Cardinality(HeldUnits(room)') = Cardinality(HeldUnits(room)) + n
      /\ status[b] \in Holding /\ status'[b] \notin Holding
           => Cardinality(HeldUnits(room)') + n = Cardinality(HeldUnits(room))
  BY <1>2, <1>3, <1>7, Recounted
<1>9. room \in Room /\ n \in Nat /\ available \in [Room -> Nat] /\ Stock \in [Room -> Nat]
  BY <1>2, <1>3, RoomOf
<1>10. /\ available'[room] + Cardinality(HeldUnits(room)')
            >= available[room] + Cardinality(HeldUnits(room))
       /\ OneAtATime => available'[room] + Cardinality(HeldUnits(room)')
            = available[room] + Cardinality(HeldUnits(room))
  BY <1>4, <1>5, <1>6, <1>8, <1>9
<1>11. \A r \in Room : r # room => available'[r] = available[r] /\ HeldUnits(r)' = HeldUnits(r)
  BY <1>4, <1>8, <1>9
<1>12. \A r \in Room : available'[r] \in Nat
  BY <1>4, <1>9
<1> QED BY <1>8, <1>9, <1>10, <1>11, <1>12 DEF CountInv, NoRoomLost, InventoryExact

LEMMA SaveHandlerCounts ==
  ASSUME HistoryInv, CountInv, NEW s \in Staff, SaveHandler(s) PROVE CountInv'
<1>1. PICK b : b = work[s].booking
  OBVIOUS
<1>2. PICK room, n : room = req[b].room /\ n = req[b].qty
  OBVIOUS
<1>3. /\ IInv /\ StaffKnows /\ b \in Customer /\ work[s].status \in Reassignable
      /\ UNCHANGED req /\ available' = available
      /\ status'[b] = Overwrite(status[b], work[s].loaded.status, work[s].status)
      /\ \A d \in Customer \ {b} : status'[d] = status[d]
  BY <1>1, SavedHandler DEF HistoryInv, SaveHandler, customerVars
<1>4. status'[b] \in Holding \/ status'[b] = status[b]
  BY <1>3 DEF Overwrite, Reassignable, Holding, Status, Refunding
<1>5. OneAtATime => status'[b] = status[b]
  BY <1>1, <1>3 DEF SaveHandler, StaffKnows, Knows, UpToDate, Overwrite
<1>6. \A r \in Room : IsFiniteSet(HeldUnits(r))
  BY DEF CountInv
<1>7. /\ \A r \in Room : IsFiniteSet(HeldUnits(r)') /\ Cardinality(HeldUnits(r)) \in Nat
      /\ \A r \in Room : Cardinality(HeldUnits(r)') \in Nat
      /\ \A r \in Room : r # room => HeldUnits(r)' = HeldUnits(r)
      /\ (status[b] \in Holding <=> status'[b] \in Holding)
           => HeldUnits(room)' = HeldUnits(room)
      /\ status[b] \notin Holding /\ status'[b] \in Holding
           => Cardinality(HeldUnits(room)') = Cardinality(HeldUnits(room)) + n
  BY <1>2, <1>3, <1>6, Recounted
<1>8. room \in Room /\ n \in Nat /\ available \in [Room -> Nat] /\ Stock \in [Room -> Nat]
  BY <1>2, <1>3, RoomOf
<1>9. \A r \in Room :
        /\ Cardinality(HeldUnits(r)') >= Cardinality(HeldUnits(r))
        /\ OneAtATime => Cardinality(HeldUnits(r)') = Cardinality(HeldUnits(r))
  BY <1>4, <1>5, <1>7, <1>8
<1> QED BY <1>3, <1>7, <1>8, <1>9 DEF CountInv, NoRoomLost, InventoryExact

LEMMA CountInit == Init => CountInv
<1> SUFFICES ASSUME Init, NEW r \in Room
             PROVE  /\ IsFiniteSet(HeldUnits(r))
                    /\ available[r] + Cardinality(HeldUnits(r)) = Stock[r]
                    /\ available[r] + Cardinality(HeldUnits(r)) >= Stock[r]
  BY DEF CountInv, NoRoomLost, InventoryExact
<1>1. HeldUnits(r) = {}
  BY DEF Init, HeldUnits, Holding, Status
<1>2. available[r] = Stock[r] /\ Stock[r] \in Nat
  BY BookingConstants DEF Init
<1> QED BY <1>1, <1>2, FS_EmptySet

LEMMA CountNext == CountInv /\ HistoryInv /\ [Next]_vars => CountInv'
<1> SUFFICES ASSUME CountInv, HistoryInv, [Next]_vars PROVE CountInv'
  OBVIOUS
<1>1. CASE UNCHANGED db
  <2>1. \A r \in Room : HeldUnits(r)' = HeldUnits(r)
    BY <1>1, Writers DEF HeldUnits, db
  <2> QED BY <1>1, <2>1 DEF CountInv, NoRoomLost, InventoryExact, db
<1> QED BY <1>1, CommitCounts, SaveStatusCounts, SaveHandlerCounts, Writers

\* However employees race on a booking, no room of the stock is lost by it.
THEOREM RoomsNeverLost == Spec => []NoRoomLost
<1>1. CountInv => NoRoomLost
  BY DEF CountInv
<1> QED BY <1>1, CountInit, CountNext, HistoryHolds, PTL DEF Spec

\* While they do not, held and available rooms are the stock to the room, through
\* every failure and retry.
THEOREM InventoryBalances == ASSUME OneAtATime PROVE Spec => []InventoryExact
<1>1. CountInv => InventoryExact
  BY DEF CountInv
<1> QED BY <1>1, CountInit, CountNext, HistoryHolds, PTL DEF Spec

\* Then no more rooms are held than there are.
THEOREM NeverOverbooked == ASSUME OneAtATime PROVE Spec => []NoOverbooking
<1>1. HistoryInv /\ CountInv => NoOverbooking
  <2> SUFFICES ASSUME HistoryInv, CountInv, NEW r \in Room
               PROVE  Cardinality(HeldUnits(r)) <= Stock[r]
    BY DEF NoOverbooking
  <2>1. available[r] \in Nat /\ Cardinality(HeldUnits(r)) \in Nat
    BY FS_CardinalityType DEF HistoryInv, IInv, TypeOK, RowsOK, CountInv
  <2>2. available[r] + Cardinality(HeldUnits(r)) = Stock[r]
    BY DEF CountInv, InventoryExact
  <2> QED BY <2>1, <2>2
<1> QED BY <1>1, CountInit, CountNext, HistoryHolds, PTL DEF Spec
-----------------------------------------------------------------------------
(* Refinement                                                                 *)

LEMMA RequestsFixed ==
  ASSUME req' = req
  PROVE  /\ [c \in Customer |-> req[c].room]' = [c \in Customer |-> req[c].room]
         /\ [c \in Customer |-> req[c].qty]' = [c \in Customer |-> req[c].qty]
  OBVIOUS

\* COMMIT books: the row is not there yet, and the rooms are, however long ago
\* they were looked at.
LEMMA CommitBooks ==
  ASSUME HistoryInv, NEW c \in Customer, Commit(c) PROVE Ledger!Book(c)
<1>1. status[c] = "NONE" /\ req[c].qty <= available[req[c].room]
  <2>1. IInv /\ RowsExist /\ pc[c] = "commit"
    BY DEF HistoryInv, Commit
  <2>2. req[c].qty \in Nat /\ available[req[c].room] \in Nat
    BY <2>1, RoomOf
  <2> QED BY <2>1, <2>2 DEF IInv, RowsExist, ReservationCovered, Before, InTransaction
<1>2. /\ available' = [available EXCEPT ![req[c].room] = @ - req[c].qty]
      /\ status' = [status EXCEPT ![c] = "PENDING"] /\ req' = req
  BY DEF Commit
<1> QED BY <1>1, <1>2, RequestsFixed DEF Ledger!Book

\* The save of a status that nobody else has changed is a permitted move, and
\* what it refunds is what the booking took.
LEMMA SaveMoves ==
  ASSUME HistoryInv, OneAtATime, NEW s \in Staff, SaveStatus(s)
  PROVE  Ledger!Move(work[s].booking, work[s].target)
<1>1. PICK b, t : b = work[s].booking /\ t = work[s].target
  OBVIOUS
<1>2. IInv /\ StaffKnows /\ pc[s] = "save" /\ b \in Customer /\ t \in Target /\ req' = req
  BY <1>1, Saved DEF HistoryInv, SaveStatus, customerVars
<1>3. status[b] \in Status /\ t \in ValidNext[status[b]]
  BY <1>1, <1>2 DEF StaffKnows, Knows, UpToDate
<1>4. <<status[b], t>> \in Ledger!Moves
  BY <1>3 DEF ValidNext, Status, Ledger!Moves
<1>5. /\ available' = IF t \in Refunding
                        THEN [available EXCEPT ![req[b].room] = @ + req[b].qty]
                        ELSE available
      /\ status' = [status EXCEPT ![b] = t]
  BY <1>1 DEF SaveStatus, RefundedQty
<1>6. Ledger!Move(b, t)
  BY <1>2, <1>4, <1>5, RequestsFixed DEF Ledger!Move, Ledger!Returning, Refunding
<1> QED BY <1>1, <1>6

\* While no two employees work on one booking at once, the interleaved statements
\* of the three operations, with their failures and retries, are the atomic ledger:
\* COMMIT of create() and of updateStatus() each are one step of it, the others none.
THEOREM BookingsImplementLedger == ASSUME OneAtATime PROVE Spec => ImplementsLedger
<1>1. Init => Ledger!LedgerInit
  <2> SUFFICES ASSUME Init PROVE Ledger!LedgerInit
    OBVIOUS
  <2>1. \A c \in Customer : req[c].room \in Room /\ req[c].qty \in 1 .. MaxQty
    BY DEF Init, Request
  <2> QED BY <2>1 DEF Init, Ledger!LedgerInit
<1>2. HistoryInv /\ [Next]_vars => [Ledger!LedgerNext]_(Ledger!ledgerVars)
  <2> SUFFICES ASSUME HistoryInv, [Next]_vars
               PROVE  Ledger!LedgerNext \/ UNCHANGED Ledger!ledgerVars
    OBVIOUS
  <2>0. IInv /\ StaffKnows /\ req' = req /\ status \in [Customer -> Status \cup {"NONE"}]
    BY Writers DEF HistoryInv, IInv, TypeOK, RowsOK
  <2>1. CASE UNCHANGED db
    BY <2>0, <2>1, RequestsFixed DEF db, Ledger!ledgerVars
  <2>2. ASSUME NEW c \in Customer, Commit(c) PROVE Ledger!LedgerNext
    BY <2>2, CommitBooks DEF Ledger!LedgerNext
  <2>3. ASSUME NEW s \in Staff, SaveStatus(s) PROVE Ledger!LedgerNext
    <3>1. PICK b, t : b = work[s].booking /\ t = work[s].target
      OBVIOUS
    <3>2. Ledger!Move(b, t) /\ b \in Customer
      BY <2>0, <2>3, <3>1, SaveMoves, Saved
    <3>3. t \in {m[2] : m \in Ledger!Moves}
      BY <3>2 DEF Ledger!Move
    <3> QED BY <3>2, <3>3 DEF Ledger!LedgerNext
  <2>4. ASSUME NEW s \in Staff, SaveHandler(s) PROVE UNCHANGED Ledger!ledgerVars
    <3>1. PICK b : b = work[s].booking
      OBVIOUS
    <3>2. status' = [status EXCEPT ![b] = Overwrite(@, work[s].loaded.status, work[s].status)]
          /\ available' = available
      BY <2>4, <3>1 DEF SaveHandler
    <3>3. work[s].loaded.status = work[s].status
      BY <2>0, <2>4 DEF SaveHandler, StaffKnows, Knows, UpToDate
    <3>4. status' = status
      BY <2>0, <3>2, <3>3 DEF Overwrite
    <3> QED BY <2>0, <3>2, <3>4, RequestsFixed DEF Ledger!ledgerVars
  <2> QED BY <2>1, <2>2, <2>3, <2>4, Writers
<1> QED BY <1>1, <1>2, HistoryHolds, PTL DEF Spec, ImplementsLedger, Ledger!LedgerSpec
=============================================================================
