------------------------- MODULE MCInboundPipeline -------------------------
(***************************************************************************)
(* InboundPipeline on small instances.  One run explores two of them one   *)
(* after the other: "part" says which.  "filters": three providers whose   *)
(* messages have one content, and no webhook to forward to.  "forwards":   *)
(* one provider and two webhooks, both on at first.                        *)
(***************************************************************************)
EXTENDS InboundPipeline

CONSTANTS e1, w1, i1, t1, h1, h2

VARIABLE part

mcVars == <<part, vars>>

\* e1 comes from Evolution, w1 from Meta, i1 from Instagram.
MCRouteOf ==
  [m \in Msgs |-> IF m = w1 THEN "meta"
                  ELSE IF m = i1 THEN "instagram" ELSE "evolution"]

\* They all have the same content.
MCTextOf == [m \in Msgs |-> t1]

MCInit ==
    /\ part \in {"filters", "forwards"}
    /\ Init
    /\ config = [h \in Hooks |-> IF part = "filters" THEN "off" ELSE "on"]

\* The bounds stop nothing but what arrives and what disturbs.
Bound ==
    /\ part = "filters" => config' = config
    /\ part = "forwards" =>
         /\ Len(requests') <= 2 /\ outages' + crashes' + operations' <= 1
         /\ \A r \in 1 .. Len(requests') : requests'[r].msg = i1

MCNext == Next /\ UNCHANGED part /\ Bound

MCSpec == MCInit /\ [][MCNext]_mcVars /\ \A r \in Requests : WF_vars(Forward(r))
=============================================================================
