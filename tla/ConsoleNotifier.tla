--------------------------- MODULE ConsoleNotifier ---------------------------
(***************************************************************************)
(* ConsoleNotifier (core/notification/console.rs): several callers send    *)
(* notifications, singly and in batches, ask for their status and cancel   *)
(* them.  Receipts are kept in a map under a lock that is taken for one    *)
(* insertion at a time: a batch is not one step, and a send that panics in *)
(* its middle leaves the receipts of the notifications before it.          *)
(*                                                                         *)
(* Of a notification its id and its subject are kept: a verbose notifier   *)
(* cuts a long subject at a byte, which panics inside of a character.      *)
(***************************************************************************)
EXTENDS Naturals, Sequences, FiniteSets

CONSTANTS
    Sender,
    Notification,   \* [id, subject]; a subject is its characters' bytes
    Batches,        \* the lists of notifications sent
    MaxSubject,     \* the width a subject is cut to, 48
    MaxReceipts     \* bound on receipts

ASSUME SubjectAssumption ==
    MaxSubject \in Nat /\ MaxSubject > 3
    /\ \A n \in Notification : n.subject \in Seq(1..4)
ASSUME BatchAssumption == Batches \subseteq Seq(Notification) \ {<<>>}

VARIABLES
    verbose,
    sent,           \* receipts by notification id: [provider, status]
    providers,      \* receipts made so far; provider ids are their numbers
    sending,        \* what each caller's send or send_batch has left to do
    answered        \* [id, provider]: receipts returned to callers

notifierVars == <<verbose, sent, providers, sending, answered>>

Nothing == [left |-> <<>>, printed |-> FALSE, receipts |-> {}]

-----------------------------------------------------------------------------
\* s.len(), in bytes, and is_char_boundary.
Bytes(text) ==
    LET upTo[k \in 0..Len(text)] == IF k = 0 THEN 0 ELSE upTo[k - 1] + text[k]
    IN  upTo[Len(text)]
Boundary(text, byte) == \E k \in 0..Len(text) : Bytes(SubSeq(text, 1, k)) = byte

\* truncate panics if the cut is inside of a character.
TruncatePanics(text) == Bytes(text) > MaxSubject /\ ~Boundary(text, MaxSubject - 3)

\* get_status: an id that is not there is answered as pending.
GetStatus(id) == IF id \in DOMAIN sent THEN sent[id].status ELSE "pending"

-----------------------------------------------------------------------------
\* new is verbose, silent is not.
NotifierInit ==
    /\ verbose \in BOOLEAN
    /\ sent = [id \in {} |-> [provider |-> 0, status |-> "pending"]]
    /\ providers = 0
    /\ sending = [c \in Sender |-> Nothing]
    /\ answered = {}

Send(c) ==
    /\ sending[c].left = <<>>
    /\ \E batch \in Batches : sending' = [sending EXCEPT ![c] = [Nothing EXCEPT !.left = batch]]
    /\ UNCHANGED <<verbose, sent, providers, answered>>

Busy(c) == sending[c].left # <<>>
Current(c) == Head(sending[c].left)

PrintBox(c) ==
    /\ Busy(c) /\ verbose /\ ~sending[c].printed
    /\ ~TruncatePanics(Current(c).subject)
    /\ sending' = [sending EXCEPT ![c].printed = TRUE]
    /\ UNCHANGED <<verbose, sent, providers, answered>>

\* The caller's task dies; what it had sent of a batch stays sent.
Panic(c) ==
    /\ Busy(c) /\ verbose /\ ~sending[c].printed
    /\ TruncatePanics(Current(c).subject)
    /\ sending' = [sending EXCEPT ![c] = Nothing]
    /\ UNCHANGED <<verbose, sent, providers, answered>>

WithReceipt(id, receipt) ==
    [i \in DOMAIN sent \cup {id} |-> IF i = id THEN receipt ELSE sent[i]]

\* The receipt replaces one of the same id; after the last notification of a
\* batch the caller is given all of its receipts.
StoreReceipt(c) ==
    /\ Busy(c) /\ verbose = sending[c].printed /\ providers < MaxReceipts
    /\ LET id == Current(c).id
           got == sending[c].receipts \cup {[id |-> id, provider |-> providers + 1]}
       IN  /\ sent' = WithReceipt(id, [provider |-> providers + 1, status |-> "delivered"])
           /\ IF Len(sending[c].left) = 1
              THEN /\ sending' = [sending EXCEPT ![c] = Nothing]
                   /\ answered' = answered \cup got
              ELSE /\ sending' = [sending EXCEPT ![c] =
                          [left |-> Tail(@.left), printed |-> FALSE, receipts |-> got]]
                   /\ UNCHANGED answered
    /\ providers' = providers + 1
    /\ UNCHANGED verbose

\* A slip: whatever has not failed is cancelled.
CancelAny(id) ==
    /\ id \in DOMAIN sent
    /\ sent' = [sent EXCEPT ![id].status = "failed"]
    /\ UNCHANGED <<verbose, providers, sending, answered>>

\* Only what is pending is cancelled; what is sent never is.
Cancel(id) ==
    /\ id \in DOMAIN sent
    /\ sent' = IF sent[id].status = "pending"
               THEN [sent EXCEPT ![id].status = "failed"] ELSE sent
    /\ UNCHANGED <<verbose, providers, sending, answered>>

NotifierNext ==
    \/ \E c \in Sender : Send(c) \/ PrintBox(c) \/ Panic(c) \/ StoreReceipt(c)
    \/ \E n \in Notification : Cancel(n.id)

NotifierSpec == NotifierInit /\ [][NotifierNext]_notifierVars
-----------------------------------------------------------------------------
\* Whoever holds a receipt is told that the notification was delivered, by that
\* receipt or by a later one of the same id: no cancellation, no other batch and
\* no panic in the middle of one takes it back.
ReceiptsStand ==
    \A r \in answered : /\ GetStatus(r.id) = "delivered"
                        /\ sent[r.id].provider >= r.provider
=============================================================================
