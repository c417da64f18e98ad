---------------------------- MODULE GroupTransport ----------------------------
(***************************************************************************)
(* The authorization of group traffic: a WhatsApp connection is bound to a *)
(* channel of Core, by Core's request or by a registration that the        *)
(* connection's own webhook authorizes, and Core sends the policy of the   *)
(* binding.  services/group_automatic.py, routers/group_transport.py,      *)
(* core_channel_credentials.py, core_control_plane.py.                     *)
(*                                                                         *)
(* A registration reads its connection and its webhook, waits for the lock *)
(* of the connection and then for the provider and for Core; it looks at   *)
(* some of what it read again before it writes.  Core, the provider and    *)
(* the callers are outside: their answers are chosen freely.               *)
(***************************************************************************)
EXTENDS Naturals, FiniteSets, TLC

CONSTANTS
    Conns,        \* connections of WhatsApp by Evolution
    Calls,        \* requests in progress at once
    Channels,     \* channels of Core
    Bindings,     \* binding identifiers Core may give
    CoreUrls,     \* inbound addresses of Core, as a webhook names them
    NoRecord, NoChannel, NoBinding, NoUrl, NoPolicy, NoCall,
    Revisions,    \* bound: policies that Core issues
    Changes,      \* bound: changes of a webhook
    Fetches       \* bound: directories the provider returns

ASSUME GtAssumption ==
    /\ NoChannel \notin Channels /\ NoBinding \notin Bindings /\ NoUrl \notin CoreUrls
    /\ NoCall \notin Calls
    /\ Revisions \in Nat /\ Changes \in Nat /\ Fetches \in Nat

VARIABLES
    records,     \* the registry's records
    keys,        \* core_channel_credentials.json: whose key is held
    webhook,     \* the enabled webhook of each connection, if there is one only
    directory,   \* the group directory held in memory, by its fetch; 0: none
    fetching,    \* a refresh of the directory runs
    lock,        \* the asyncio lock of each connection
    calls,       \* the coroutines
    issued,      \* history: policies Core issued, directories returned, changes
    torn         \* history: a process died between the two files

gtVars == <<records, keys, webhook, directory, fetching, lock, calls, issued, torn>>

Policy == [enabled : BOOLEAN, account : BOOLEAN, channel : Channels, binding : Bindings]
Unbound == [channel |-> NoChannel, binding |-> NoBinding, url |-> NoUrl, policy |-> NoPolicy, groups |-> 0]
Record ==
    [channel : Channels \cup {NoChannel}, binding : Bindings \cup {NoBinding}, url : CoreUrls \cup {NoUrl},
     policy : Policy \cup {NoPolicy}, groups : 0 .. Fetches]

Free == [pc |-> "free"]

GtInit ==
    /\ records = [c \in Conns |-> Unbound]
    /\ keys = [c \in Conns |-> NoChannel]
    /\ webhook \in [Conns -> CoreUrls]
    /\ directory = [c \in Conns |-> 0] /\ fetching = [c \in Conns |-> FALSE]
    /\ lock = [c \in Conns |-> NoCall]
    /\ calls = [k \in Calls |-> Free]
    /\ issued = [policies |-> 0, changes |-> 0, fetches |-> 0]
    /\ torn = [c \in Conns |-> FALSE]

Present(c) == records[c] # NoRecord
Issue(what, limit) == issued[what] < limit /\ issued' = [issued EXCEPT ![what] = @ + 1]

-------------------------------------------------------------------------------
(* The policy that Core sends.                                             *)

Fits_AnyBinding(record, policy) == policy.channel = record.channel
Fits(record, policy) == policy.channel = record.channel /\ policy.binding = record.binding

\* Validated against the binding and stored in one step.
PutPolicy(c, policy) ==
    /\ Present(c) /\ Fits(records[c], policy)
    /\ Issue("policies", Revisions)
    /\ records' = [records EXCEPT ![c].policy = policy]
    /\ UNCHANGED <<keys, webhook, directory, fetching, lock, calls, torn>>

-------------------------------------------------------------------------------
(* Binding on Core's request.                                              *)

StartBind(k, c, channel) ==
    /\ calls[k] = Free /\ Present(c)
    /\ calls' = [calls EXCEPT ![k] = [pc |-> "binding", conn |-> c, channel |-> channel]]
    /\ UNCHANGED <<records, keys, webhook, directory, fetching, lock, issued, torn>>

\* Rebinding drops the policy, the directory and the address that were known.
\* If the connection went while Core answered, so does its key.
Bind(k, binding) ==
    LET c == calls[k].conn IN
    /\ calls[k].pc = "binding"
    /\ keys' = [keys EXCEPT ![c] = IF Present(c) THEN calls[k].channel ELSE NoChannel]
    /\ records' = [records EXCEPT ![c] =
         IF Present(c) THEN [Unbound EXCEPT !.channel = calls[k].channel, !.binding = binding] ELSE @]
    /\ torn' = [torn EXCEPT ![c] = FALSE]
    /\ calls' = [calls EXCEPT ![k] = Free]
    /\ UNCHANGED <<webhook, directory, fetching, lock, issued>>

BindFails(k) ==
    /\ calls[k].pc = "binding"
    /\ calls' = [calls EXCEPT ![k] = Free]
    /\ UNCHANGED <<records, keys, webhook, directory, fetching, lock, issued, torn>>

-------------------------------------------------------------------------------
(* Registration by the connection.                                         *)

\* The record and the webhook are read here, before the lock.
StartRegister(k, c, channel) ==
    /\ calls[k] = Free /\ Present(c) /\ webhook[c] # NoUrl
    /\ calls' = [calls EXCEPT ![k] =
         [pc |-> "waiting", conn |-> c, channel |-> channel, prior |-> records[c], url |-> webhook[c]]]
    /\ UNCHANGED <<records, keys, webhook, directory, fetching, lock, issued, torn>>

BoundElsewhere(k) ==
    LET prior == calls[k].prior IN
    /\ prior.channel # NoChannel
    /\ prior.channel # calls[k].channel \/ prior.url \notin {NoUrl, calls[k].url}

Enter(k) ==
    LET c == calls[k].conn IN
    /\ calls[k].pc = "waiting" /\ lock[c] = NoCall
    /\ IF BoundElsewhere(k)
       THEN calls' = [calls EXCEPT ![k] = Free] /\ lock' = lock
       ELSE calls' = [calls EXCEPT ![k].pc = "listing"] /\ lock' = [lock EXCEPT ![c] = k]
    /\ UNCHANGED <<records, keys, webhook, directory, fetching, issued, torn>>

\* The account is asked for, and its directory: one that is held is used and
\* may be refreshed behind; the first is waited for, but not for long.
Listed(k) ==
    LET c == calls[k].conn IN
    /\ calls[k].pc = "listing"
    /\ \/ directory[c] # 0 /\ fetching' \in {fetching, [fetching EXCEPT ![c] = TRUE]}
       \/ directory[c] = 0 /\ fetching' = [fetching EXCEPT ![c] = TRUE]
    /\ calls' = [calls EXCEPT ![k] =
         [pc |-> "posting", conn |-> c, channel |-> @.channel, url |-> @.url,
          groups |-> IF directory[c] = 0 THEN @.prior.groups ELSE directory[c]]]
    /\ UNCHANGED <<records, keys, webhook, directory, lock, issued, torn>>

\* A directory that is not valid leaves the one that was confirmed.
Fetched(c, valid) ==
    /\ fetching[c]
    /\ fetching' = [fetching EXCEPT ![c] = FALSE]
    /\ IF valid THEN Issue("fetches", Fetches) /\ directory' = [directory EXCEPT ![c] = issued.fetches + 1]
       ELSE UNCHANGED <<directory, issued>>
    /\ UNCHANGED <<records, keys, webhook, lock, calls, torn>>

\* Core admits the account: its answer is on its way.
CoreAdmits(k, binding) ==
    /\ calls[k].pc = "posting"
    /\ Issue("policies", Revisions)
    /\ calls' = [calls EXCEPT ![k] =
         [pc |-> "admitted", conn |-> @.conn, channel |-> @.channel, url |-> @.url, groups |-> @.groups,
          binding |-> binding]]
    /\ UNCHANGED <<records, keys, webhook, directory, fetching, lock, torn>>

AccountBinding(k) ==
    [channel |-> calls[k].channel, binding |-> calls[k].binding, url |-> calls[k].url,
     policy |-> [enabled |-> TRUE, account |-> TRUE, channel |-> calls[k].channel, binding |-> calls[k].binding],
     groups |-> calls[k].groups]

\* The connection and the webhook must be what they were; the policy that is
\* stored is not looked at.
Unchanged(k) == Present(calls[k].conn) /\ webhook[calls[k].conn] = calls[k].url

Leaves(k) ==
    /\ calls' = [calls EXCEPT ![k] = Free]
    /\ lock' = [lock EXCEPT ![calls[k].conn] = NoCall]

KeysWith(c, channel) == [keys EXCEPT ![c] = channel]

Register(k) ==
    LET c == calls[k].conn IN
    /\ calls[k].pc = "admitted" /\ Unchanged(k)
    /\ keys' = KeysWith(c, calls[k].channel)
    /\ records' = [records EXCEPT ![c] = AccountBinding(k)]
    /\ torn' = [torn EXCEPT ![c] = FALSE]
    /\ Leaves(k)
    /\ UNCHANGED <<webhook, directory, fetching, issued>>

\* An error, or something that changed: nothing is written.
RegisterFails(k) ==
    /\ calls[k].pc \in {"listing", "posting", "admitted"}
    /\ Leaves(k)
    /\ UNCHANGED <<records, keys, webhook, directory, fetching, issued, torn>>

-------------------------------------------------------------------------------
(* What happens around.                                                    *)

ChangeWebhook(c, url) ==
    /\ Issue("changes", Changes)
    /\ webhook' = [webhook EXCEPT ![c] = url]
    /\ UNCHANGED <<records, keys, directory, fetching, lock, calls, torn>>

\* The key of a WhatsApp connection stays when the connection is deleted.
Remove(c) ==
    /\ Present(c)
    /\ Issue("changes", Changes)
    /\ records' = [records EXCEPT ![c] = NoRecord]
    /\ UNCHANGED <<keys, webhook, directory, fetching, lock, calls, torn>>

\* A process dies; between the key and the record if it was writing both.
GtCrash ==
    /\ Issue("changes", Changes)
    /\ calls' = [k \in Calls |-> Free]
    /\ lock' = [c \in Conns |-> NoCall]
    /\ directory' = [c \in Conns |-> 0] /\ fetching' = [c \in Conns |-> FALSE]
    /\ \/ UNCHANGED <<keys, torn>>
       \/ \E k \in Calls :
            /\ \/ calls[k].pc = "binding"
               \/ calls[k].pc = "admitted" /\ Unchanged(k)
            /\ keys' = [keys EXCEPT ![calls[k].conn] = calls[k].channel]
            /\ torn' = [torn EXCEPT ![calls[k].conn] = TRUE]
    /\ UNCHANGED <<records, webhook>>

GtNext ==
    \/ \E c \in Conns, p \in Policy : PutPolicy(c, p)
    \/ \E k \in Calls, c \in Conns, h \in Channels : StartBind(k, c, h) \/ StartRegister(k, c, h)
    \/ \E k \in Calls, b \in Bindings : Bind(k, b) \/ CoreAdmits(k, b)
    \/ \E k \in Calls : BindFails(k) \/ Enter(k) \/ Listed(k) \/ Register(k) \/ RegisterFails(k)
    \/ \E c \in Conns, valid \in BOOLEAN : Fetched(c, valid)
    \/ \E c \in Conns, u \in CoreUrls \cup {NoUrl} : ChangeWebhook(c, u)
    \/ \E c \in Conns : Remove(c)
    \/ GtCrash

GtSpec == GtInit /\ [][GtNext]_gtVars

-------------------------------------------------------------------------------
(* Properties.                                                             *)

\* Every record has the form the code gives it.
GtTypeOK ==
    /\ records \in [Conns -> Record \cup {NoRecord}]
    /\ keys \in [Conns -> Channels \cup {NoChannel}]
    /\ webhook \in [Conns -> CoreUrls \cup {NoUrl}]
    /\ directory \in [Conns -> 0 .. Fetches] /\ fetching \in [Conns -> BOOLEAN]
    /\ lock \in [Conns -> Calls \cup {NoCall}]
    /\ torn \in [Conns -> BOOLEAN]

\* Groups are admitted by a policy of the binding that stands, never by one of
\* an earlier binding; and the key that is held for the connection is the key
\* of that binding's channel, unless a process died between the two files.
BindingIsWhole ==
    \A c \in Conns : Present(c) =>
        /\ records[c].policy # NoPolicy =>
              records[c].policy.binding = records[c].binding /\ records[c].policy.channel = records[c].channel
        /\ torn[c] \/ records[c].channel = keys[c]
=============================================================================
