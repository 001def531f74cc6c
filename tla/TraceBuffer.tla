---------------------------- MODULE TraceBuffer ----------------------------
(***************************************************************************)
(* What the background sender's buffer promises its callers: a payload is  *)
(* held from the moment it is stored until the batch it is in has been     *)
(* sent, it is stored and sent once, one that was accepted is held, and    *)
(* one that was refused never gets in.  Stacks, sizes, rotation and memory *)
(* do not appear.  Once broken, anything may happen.                       *)
(***************************************************************************)
VARIABLES
    held,      \* payloads in the buffer
    sending,   \* the batch in the sender's hands
    sent,      \* payloads that were uploaded or given up by the upload
    accepted,  \* calls that reported success
    rejected,  \* calls that reported failure
    broken     \* the buffer's internal discipline was violated

vars == <<held, sending, sent, accepted, rejected, broken>>

Init ==
    /\ held = {} /\ sending = {} /\ sent = {}
    /\ accepted = {} /\ rejected = {}
    /\ broken = FALSE

Seen == held \cup sending \cup sent

Store(t) ==
    /\ t \notin Seen \cup accepted \cup rejected
    /\ held' = held \cup {t}
    /\ UNCHANGED <<sending, sent, accepted, rejected>>

Accept(t) ==
    /\ t \in held \ (accepted \cup rejected)
    /\ accepted' = accepted \cup {t}
    /\ UNCHANGED <<held, sending, sent, rejected>>

Reject(t) ==
    /\ t \notin Seen \cup accepted
    /\ rejected' = rejected \cup {t}
    /\ UNCHANGED <<held, sending, sent, accepted>>

\* Only payloads whose calls have reported success are in a batch.
Take(batch) ==
    /\ sending = {}
    /\ batch \subseteq held \cap accepted
    /\ sending' = batch
    /\ held' = held \ batch
    /\ UNCHANGED <<sent, accepted, rejected>>

Send ==
    /\ sent' = sent \cup sending
    /\ UNCHANGED <<held, sending, accepted, rejected>>

Drop ==
    /\ sending \subseteq sent
    /\ sending' = {}
    /\ UNCHANGED <<held, sent, accepted, rejected>>

Break == broken' = TRUE

Next ==
    \/ /\ UNCHANGED broken
       /\ \/ Send
          \/ Drop
          \/ \E t \in held' : Store(t)
          \/ \E t \in held : Accept(t)
          \/ \E t \in rejected' : Reject(t)
          \/ Take(sending')
    \/ Break

Spec == Init /\ [][Next]_vars
=============================================================================
