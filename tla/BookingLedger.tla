---------------------------- MODULE BookingLedger ----------------------------
(***************************************************************************)
(* What BookingsService promises: bookings that take rooms out of a stock    *)
(* and put them back, each in ONE step.  Booking succeeds only while the     *)
(* rooms are there, a booking moves along VALID_STATUS_TRANSITIONS, and      *)
(* being rejected or cancelled is what returns its rooms.                    *)
(***************************************************************************)
EXTENDS Naturals

CONSTANTS Booking, Room, MaxQty, Stock

VARIABLES avail, phase, room, qty

ledgerVars == <<avail, phase, room, qty>>

Returning == {"REJECTED", "CANCELLED"}

\* VALID_STATUS_TRANSITIONS as pairs
Moves == {<<"PENDING", "CONFIRMED">>, <<"PENDING", "REJECTED">>,
          <<"PENDING", "CANCELLED">>, <<"CONFIRMED", "CHECKED_IN">>,
          <<"CONFIRMED", "CANCELLED">>, <<"CHECKED_IN", "COMPLETED">>}

LedgerInit ==
  /\ avail = Stock
  /\ phase = [b \in Booking |-> "NONE"]
  /\ room \in [Booking -> Room]
  /\ qty \in [Booking -> 1 .. MaxQty]

Book(b) ==
  /\ phase[b] = "NONE"
  /\ qty[b] <= avail[room[b]]
  /\ avail' = [avail EXCEPT ![room[b]] = @ - qty[b]]
  /\ phase' = [phase EXCEPT ![b] = "PENDING"]
  /\ UNCHANGED <<room, qty>>

Move(b, to) ==
  /\ <<phase[b], to>> \in Moves
  /\ avail' = IF to \in Returning
                THEN [avail EXCEPT ![room[b]] = @ + qty[b]] ELSE avail
  /\ phase' = [phase EXCEPT ![b] = to]
  /\ UNCHANGED <<room, qty>>

LedgerNext ==
  \E b \in Booking :
    Book(b) \/ \E to \in {m[2] : m \in Moves} : Move(b, to)

LedgerSpec == LedgerInit /\ [][LedgerNext]_ledgerVars
=============================================================================
