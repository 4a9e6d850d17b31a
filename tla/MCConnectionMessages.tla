----------------------- MODULE MCConnectionMessages -----------------------
(***************************************************************************)
(* Instances of ConnectionMessages for TLC.                                  *)
(***************************************************************************)
EXTENDS ConnectionMessages

CONSTANTS h1, h2, ann, bob, m1, m2, m3

Message(i, from, kind, quotes, to) ==
  [id |-> i, from |-> from, kind |-> kind, quotes |-> quotes, to |-> to]

Scenario(p, bound, messages, deliveries, faults) ==
  [platform |-> p, bound |-> bound, messages |-> messages, strict |-> {},
   online |-> TRUE, retention |-> FALSE, deliveries |-> deliveries, faults |-> faults]

Replies ==
  {Message(m1, ann, "text", "reply", 1), Message(m2, ann, "text", "nothing", None),
   Message(m3, ann, "stage", "marker", 2)}
\* Two senders know the code, a third message is of the first or names no sender.
Codes(from) ==
  {Message(m1, ann, "code", "nothing", None), Message(m2, bob, "code", "nothing", None),
   Message(m3, from, "text", "marker", 1)}
Pages ==
  {Message(m1, ann, "page", "reply", 1), Message(m2, bob, "text", "reply", 1),
   Message(m3, ann, "text", "marker", 1)}
Pulled ==
  {Message(m1, ann, "text", "reply", 1), Message(m2, ann, "page", "reply", 2)}

MCScenarios ==
  {Scenario("webhook", ann, Replies, 3, 1),
   Scenario("websocket", None, Codes(Nobody), 4, 0), Scenario("lark", None, Codes(ann), 3, 1),
   Scenario("wecom_aibot", None, Codes(ann), 3, 0), Scenario("wecom_ilink", ann, Codes(ann), 2, 1),
   [Scenario("webhook", ann, Pages, 3, 1) EXCEPT !.strict = {1}, !.retention = TRUE],
   [Scenario("http_poll", ann, Pulled, 2, 0) EXCEPT !.retention = TRUE]}

============================================================================
