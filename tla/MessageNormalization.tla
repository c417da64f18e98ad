------------------------- MODULE MessageNormalization -------------------------
(***************************************************************************)
(* What the Gateway makes of a provider's notification before it keeps it: *)
(* the event, the kind of a message, the time at the source, the status of *)
(* an update, the medium it points to.  Pure operators; a notification is  *)
(* the facts of it that the code tells apart.                              *)
(* services/normalization.py, routers/meta_webhook.py.                     *)
(***************************************************************************)
EXTENDS Integers, Sequences, FiniteSets, SequencesExt

CONSTANTS
    Base,        \* values of one half of a provider's long; 2^32 in the code
    Threshold,   \* a number from here on counts milliseconds; 10^12 in the code
    NoNumber,    \* no time could be read
    NoId,
    NoAttempt    \* what an event names that is not of a send

ASSUME NormalizationAssumption ==
    /\ Base \in Nat \ {0} /\ Base = 2 * (Base \div 2)
    /\ Threshold \in Nat \ {0} /\ NoNumber \notin Int

-------------------------------------------------------------------------------
(* Events.                                                                 *)

\* The two providers spell an event differently; a name that is not known is
\* only put in capitals.
Canonical(event) ==
    CASE event \in {"messages.upsert", "messages-upsert", "MESSAGES_UPSERT"} -> "MESSAGES_UPSERT"
      [] event \in {"messages.update", "MESSAGES_UPDATE"} -> "MESSAGES_UPDATE"
      [] event \in {"send.message", "SEND_MESSAGE"} -> "SEND_MESSAGE"
      [] event \in {"presence", "call", "chats.update", "contacts.update", "connection.update"} -> "TECHNICAL"
      [] OTHER -> "OTHER"

-------------------------------------------------------------------------------
(* Messages.  Two classifications: by the name of the type, or the part    *)
(* that carries the medium; and as an interaction, which overrides it.     *)

Replies == {"buttonsResponseMessage", "listResponseMessage", "templateButtonReplyMessage",
            "interactiveResponseMessage", "nativeFlowResponseMessage"}
Offers == {"interactiveMessage", "templateMessage", "hydratedTemplate"}
Specials == {"eventMessage", "protocolMessage", "editedMessage", "ephemeralMessage", "viewOnceMessage",
             "viewOnceMessageV2", "viewOnceMessageV2Extension", "keepInChatMessage"}
Ignored == {"senderKeyDistributionMessage", "messageContextInfo", "encMessage", "senderKeyMessage"}
Parts == {"stickerMessage", "audioMessage", "imageMessage", "videoMessage", "documentMessage"}

GuessKind(m) ==
    CASE m.type \in Replies -> "interactive_reply"
      [] m.type \in Offers -> "interactive_message"
      [] m.type = "reactionMessage" -> "reaction"
      [] m.type \in {"contactMessage", "contactsArrayMessage"} -> "contact"
      [] m.type \in {"locationMessage", "liveLocationMessage"} -> "location"
      [] m.type = "pollCreationMessage" -> "poll_create"
      [] m.type = "pollUpdateMessage" -> "poll_update"
      [] m.type \in Specials -> "special"
      [] m.type \in {"conversation", "extendedTextMessage"} -> "text"
      [] OTHER -> CASE m.part = "stickerMessage" -> "sticker"
                    [] m.part = "audioMessage" -> IF m.ptt THEN "voice_note" ELSE "audio"
                    [] m.part = "imageMessage" -> "image"
                    [] m.part = "videoMessage" -> "video"
                    [] m.part = "documentMessage" -> "document"
                    [] OTHER -> "unknown"

\* An answer in which nothing was chosen is not taken for a choice; a name that
\* sounds like an interaction is one that is not known.
Interaction(m) ==
    CASE m.type \in Replies -> IF m.choice THEN "interactive_reply" ELSE "interactive_unknown"
      [] m.type \in Offers -> "interactive_message"
      [] m.type \in {"listMessage", "buttonsMessage"} -> "interactive_unknown"
      [] OTHER -> "none"

Kind(m) == IF Interaction(m) # "none" THEN Interaction(m) ELSE GuessKind(m)

\* A medium is known by what the provider says of it, or by a name of its own
\* when it says nothing.
MediaOf(m, fresh) ==
    CASE m.part \notin Parts -> {}
      [] m.identity = NoId -> {[fresh |-> fresh]}
      [] OTHER -> {[part |-> m.part, kind |-> Kind(m), identity |-> m.identity]}

\* What is kept of the content.  Where the Cloud API names the parts of a reaction
\* or a list of contacts in its own way, the former reads as its removal and the
\* latter as empty.
Reaction(m) == IF m.cloud THEN "removal" ELSE "emoji"
Contacts(m) == IF m.cloud THEN "nobody" ELSE "contacts"
Poll(m) == IF m.type = "pollCreationMessage" THEN "options" ELSE "choices"

Content(m) ==
    CASE Kind(m) = "unknown" -> "unsupported"
      [] m.choice -> "interaction"
      [] Kind(m) = "reaction" -> Reaction(m)
      [] Kind(m) = "location" -> "place"
      [] Kind(m) = "contact" -> Contacts(m)
      [] Kind(m) \in {"poll_create", "poll_update"} -> Poll(m)
      [] OTHER -> "text"

\* What a message says of others is found in it or, lifted, beside it; what is in
\* it has the last word, even that nobody is mentioned.
Context(m) ==
    [x \in DOMAIN m.nested \cup DOMAIN m.beside |-> IF x \in DOMAIN m.nested THEN m.nested[x] ELSE m.beside[x]]
IsReply(m) == "quoted" \in DOMAIN Context(m)
Mentions(m) == IF "mentioned" \in DOMAIN Context(m) THEN Context(m)["mentioned"] ELSE {}

\* The Cloud API's message in the shape of Evolution's.  Its voice notes are
\* not marked, its media have no identity that is kept, and a chosen button has
\* a title.
CloudMessage(c) ==
    [type |-> CASE c.type = "text" -> "conversation"
                [] c.type = "interactive" -> "interactiveResponseMessage"
                [] c.type = "location" -> "locationMessage"
                [] c.type = "contacts" -> "contactsArrayMessage"
                [] c.type = "reaction" -> "reactionMessage"
                [] c.type \in {"image", "audio", "video", "document", "sticker"} -> "media"
                [] OTHER -> c.type,
     part |-> CASE c.type = "image" -> "imageMessage" [] c.type = "audio" -> "audioMessage"
                [] c.type = "video" -> "videoMessage" [] c.type = "document" -> "documentMessage"
                [] c.type = "sticker" -> "stickerMessage" [] OTHER -> "none",
     ptt |-> FALSE, choice |-> c.type = "interactive", identity |-> NoId,
     cloud |-> TRUE, nested |-> <<>>, beside |-> c.context]

-------------------------------------------------------------------------------
(* Time at the source: the first of the candidates that can be read.       *)

\* What may be said of a time; the halves of a long may look negative.
Candidates ==
    [form : {"number", "digits"}, n : Int]
    \cup [form : {"long"}, high : -(Base \div 2) .. Base - 1, low : Int, unsigned : BOOLEAN]
    \cup [form : {"iso"}, ms : Int]
    \cup [form : {"none"}]

Sign == (Base \div 2) * Base   \* 2^63
LowBits_Signed(low) == low
LowBits(low) == low % Base

ToInt64(v) ==
    CASE v.form = "number" -> v.n
      [] v.form = "digits" -> v.n
      [] v.form = "long" ->
           LET n == v.high * Base + LowBits(v.low)
           IN  IF ~v.unsigned /\ n >= Sign THEN n - 2 * Sign ELSE n
      [] OTHER -> NoNumber

UnixToMs(v) ==
    LET n == ToInt64(v)
    IN  IF n = NoNumber \/ n <= 0 THEN NoNumber ELSE IF n < Threshold THEN n * 1000 ELSE n

IsoToMs(v) == IF v.form = "iso" THEN v.ms ELSE NoNumber

Ms(v) == IF UnixToMs(v) # NoNumber THEN UnixToMs(v) ELSE IsoToMs(v)

First(places) == CHOOSE i \in places : \A j \in places : i <= j
SourceTime(candidates) ==
    LET read == {i \in 1 .. Len(candidates) : Ms(candidates[i]) # NoNumber}
    IN  IF read = {} THEN NoNumber ELSE Ms(candidates[First(read)])

-------------------------------------------------------------------------------
(* Updates.                                                                *)

NormalizeStatus(raw) ==
    CASE raw \in {"PENDING", "SERVER_ACK", "sent"} -> "sent"
      [] raw \in {"DELIVERY_ACK", "delivered"} -> "delivered"
      [] raw \in {"READ", "READ_ACK", "read"} -> "read"
      [] raw \in {"PLAYED", "PLAYEDBACK"} -> "played"
      [] raw = "failed" -> "failed"
      [] OTHER -> "none"

\* Of the updates of one notification, the last that has a status that is
\* known counts; without one, the last.
ChosenUpdate(items) ==
    LET known == SelectSeq(items, LAMBDA i : NormalizeStatus(i.status) # "none")
    IN  IF known # <<>> THEN Last(known) ELSE Last(items)
UpdateStatus(items) ==
    LET status == NormalizeStatus(ChosenUpdate(items).status)
    IN  IF status = "none" THEN "unknown" ELSE status

-------------------------------------------------------------------------------
(* A notification is business if it is a message or an update; nothing is   *)
(* made of the others.                                                     *)

IsBusiness(p) ==
    \/ Canonical(p.event) = "MESSAGES_UPDATE"
    \/ Canonical(p.event) \in {"MESSAGES_UPSERT", "SEND_MESSAGE"} /\ p.message.type \notin Ignored

Normalize(p, fresh, now) ==
    IF Canonical(p.event) = "MESSAGES_UPDATE"
    THEN [name |-> "MESSAGES_UPDATE", id |-> ChosenUpdate(p.items).id, ref |-> ChosenUpdate(p.items).id,
          dir |-> "status", kind |-> "message_status", content |-> "none", reply |-> FALSE, mentions |-> {},
          status |-> UpdateStatus(p.items), source |-> SourceTime(p.when), media |-> {}, at |-> now, attempt |-> NoAttempt]
    ELSE [name |-> Canonical(p.event), id |-> p.id, ref |-> p.id,
          dir |-> IF p.fromMe THEN "outbound" ELSE "inbound", kind |-> Kind(p.message),
          content |-> Content(p.message), reply |-> IsReply(p.message), mentions |-> Mentions(p.message),
          status |-> "received", source |-> SourceTime(p.when), media |-> MediaOf(p.message, fresh),
          at |-> now, attempt |-> NoAttempt]
=============================================================================
