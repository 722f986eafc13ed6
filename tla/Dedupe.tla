-------------------------------- MODULE Dedupe --------------------------------
(***************************************************************************)
(* What DedupeStore (bridge/runtime/dedupe.py) keeps of an event, and the  *)
(* parts its three operations are made of: an operation reads the clock,   *)
(* evicts what has expired by that reading, looks at the event's entry and *)
(* writes a new one.  Attempts, reasons and updated_at are only reported.  *)
(***************************************************************************)
EXTENDS Integers

CONSTANTS
    Events,         \* event ids
    Ttl,            \* ttl_seconds
    NoEntry         \* the store has nothing of the event

ASSUME TtlAssumption == Ttl \in Nat \ {0}

Entry == [status : {"processing", "succeeded", "failed"}, expires_at : Nat]
Store == [Events -> Entry \cup {NoEntry}]

ASSUME NoEntryAssumption == NoEntry \notin Entry

Empty == [e \in Events |-> NoEntry]

Expired(store, t) ==
    {e \in Events : store[e] # NoEntry /\ store[e].expires_at <= t}

Without(store, gone) ==
    [e \in Events |-> IF e \in gone THEN NoEntry ELSE store[e]]

\* begin() turns the event away.
\* Mutant: an event that was claimed is turned away as well.
IsDuplicate_Claimed(store, e) == store[e] # NoEntry
IsDuplicate(store, e) == store[e] # NoEntry /\ store[e].status = "succeeded"

\* Mutant: success is noted and the expiry of the claim stays.
Marked_KeepsExpiry(store, e, status, t) ==
    [store EXCEPT ![e] =
        [status     |-> status,
         expires_at |-> IF @ # NoEntry /\ status = "succeeded"
                        THEN @.expires_at ELSE t + Ttl]]

\* begin(), complete() and fail() write an entry whatever is there.
Marked(store, e, status, t) ==
    [store EXCEPT ![e] = [status |-> status, expires_at |-> t + Ttl]]

=============================================================================
