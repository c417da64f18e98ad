------------------------ MODULE MCOutboundAttempts ------------------------
(***************************************************************************)
(* Sending on small instances.  The attempts under keys, the resends and   *)
(* the timeline share nothing here; one run explores them one after the    *)
(* other: "part" says which one moves.                                     *)
(***************************************************************************)
EXTENDS OutboundAttempts, MessageTimeline

CONSTANTS r1, r2, d1, d2, x1, x2, x3, k1, k2,
          s1,      \* a send
          other    \* the identity of a message that somebody else sent

VARIABLE part

mcVars == <<part, vars, mtVars>>

\* r1 and r2 are the same message.
MCKeyOf == [r \in Requests |-> k1]

\* x1 and x2 have keys of their own, x3 repeats x1.
MCActionKey == [x \in Resends |-> IF x = x2 THEN k2 ELSE k1]

\* The echo of the send, in the spelling of either provider, dated after a time of zero; its statuses, one of
\* them followed by an update that says nothing; a picture from somebody else, sent in
\* answer, that mentions nobody although what is lifted beside it mentions the
\* sender, and whose time is a long with a negative low half; the same by the Cloud
\* API, its time in digits; and a message that is ignored.
Text == [type |-> "conversation", part |-> "none", ptt |-> FALSE, choice |-> FALSE, identity |-> NoId,
         cloud |-> FALSE, nested |-> <<>>, beside |-> <<>>]
Echo(event) == [event |-> event, id |-> <<s1, 1>>, fromMe |-> TRUE, message |-> Text,
                when |-> <<[form |-> "number", n |-> 0], [form |-> "iso", ms |-> 5000]>>]
Status(items) == [event |-> "messages.update", when |-> <<>>, items |-> items]
Answered(message, time) ==
    [event |-> "messages-upsert", id |-> other, fromMe |-> FALSE, when |-> <<[form |-> "none"], time>>, message |-> message]
Picture == [Text EXCEPT !.type = "imageMessage", !.part = "imageMessage", !.identity = other,
                        !.nested = [mentioned |-> {}], !.beside = [mentioned |-> {s1}, quoted |-> s1]]
CloudPicture == CloudMessage([type |-> "image", context |-> [quoted |-> s1]])
MCNotices ==
    {Echo("messages.upsert"), Echo("MESSAGES_UPSERT"),
     Status(<<[id |-> <<s1, 1>>, status |-> "DELIVERY_ACK"]>>),
     Status(<<[id |-> <<s1, 1>>, status |-> "READ"], [id |-> other, status |-> "?"]>>),
     Answered(Picture, [form |-> "long", high |-> 1, low |-> -2, unsigned |-> FALSE]),
     Answered(CloudPicture, [form |-> "digits", n |-> 6]),
     [Echo("messages.upsert") EXCEPT !.message.type = "senderKeyMessage"]}

MCInit == part \in {"keys", "resends", "timeline"} /\ Init /\ MtInit

MCNext ==
    \/ part \in {"keys", "resends"} /\ Next /\ UNCHANGED <<part, mtVars>>
       /\ (part = "keys" => /\ faults' <= 1 /\ \A x \in Resends : pc'[x] = "new"
                          /\ \A d \in Directs : provider'[d] = "none" /\ d \notin reconciling')
       /\ (part = "resends" => /\ reconciling' = {} /\ \A c \in Calls : provider'[c] # "read"
                             /\ \A c \in Calls \ (Resends \cup {d1}) : pc'[c] = "new")
    \/ part = "timeline" /\ MtNext /\ UNCHANGED <<part, vars>> /\ clock' <= 1
       /\ \A s \in Sends : sends[s] = New /\ sends'[s].pc = "posting" =>
            /\ sends'[s].form = "uri" => sends'[s].route = "unified"
            /\ sends'[s].form \notin {"url", "raw"}
            /\ sends'[s].route \in {"unified", "quick"} => sends'[s].provider = "evolution"

MCSpec == MCInit /\ [][MCNext]_mcVars
=============================================================================
