---------------------------- MODULE Continuation ----------------------------
(***************************************************************************)
(* What a persistent request leans on and what a completed response grants *)
(* (internal/proxy/continuation.go): the ids of responses, items and calls *)
(* and the digests of replayed history.                                    *)
(*                                                                         *)
(* Data.  An item keeps what tells ids apart: kind ("user" stands for every *)
(* full message that is not the assistant's, "tools" for additional_tools, *)
(* "other" for what the contract does not know), id, call and text, where  *)
(* text stands for all the content a digest covers.  A field that is       *)
(* missing or null is None.  A body is [prev, items], an answer is         *)
(* [id, output].  A key names an id in its own space; of is the            *)
(* conversation a history digest is scoped to, None for the other spaces.  *)
(* Field lists, lengths and duplicate JSON keys only ever refuse a body or *)
(* an answer, which the handlers model as a refusal.                       *)
(***************************************************************************)
CONSTANT None    \* an absent id

\* The fields of an item.
IsItem(item) ==
  item = [kind |-> item.kind, id |-> item.id, call |-> item.call, text |-> item.text]

Key(space, name) == [space |-> space, name |-> name, of |-> None]

\* historyScope: equal text may be produced in several conversations.
historyScope(key, thread) ==
  IF key.space = "history" THEN [key EXCEPT !.of = thread] ELSE key

\* The "item:" key of an item that has an id.
ItemKey(item) == IF item.id = None THEN {} ELSE {Key("item", item.id)}

historyKey(item) == {Key("history", item.text)}

toolRefs(item) ==
  CASE item.kind = "item_reference" -> {Key("item", item.id)}
    [] item.kind = "function_call_output" -> {Key("call", item.call)}
    [] item.kind = "function_call" -> {Key("call", item.call)} \cup ItemKey(item)

\* The ids one input item needs its conversation to own already.
ItemRefs(item) ==
  CASE item.kind \in {"user", "tools"} -> {}
    [] item.kind \in {"assistant", "reasoning"} -> historyKey(item) \cup ItemKey(item)
    [] OTHER -> toolRefs(item)

Supported(body) ==
  \A item \in body.items :
     /\ item.kind # "other"
     /\ item.kind = "item_reference" => item.id # None
     /\ item.kind \in {"function_call", "function_call_output"} => item.call # None

continuationRefs(body) ==
  (IF body.prev = None THEN {} ELSE {Key("response", body.prev)})
    \cup UNION {ItemRefs(item) : item \in body.items}

\* Ids of items the request supplies in full: the conversation claims them.
inlineMessageIDs(body) ==
  UNION {ItemKey(item) : item \in
           {i \in body.items : i.kind \in {"user", "tools", "function_call_output"}}}

\* What the contract knows in an output.
Contracted == {"assistant", "reasoning", "function_call"}

OutputRefs(item) ==
  CASE item.kind \in {"assistant", "reasoning"} -> historyKey(item) \cup ItemKey(item)
    [] item.kind = "function_call" -> ItemKey(item) \cup {Key("call", item.call)}
    [] OTHER -> {}     \* unknown output is delivered but grants nothing

\* Variant: only the response and its items by id are granted.
CompletedIds(answer) ==
  {Key("response", answer.id)} \cup UNION {ItemKey(item) : item \in answer.output}
completedRefs(answer) ==
  {Key("response", answer.id)} \cup UNION {OutputRefs(item) : item \in answer.output}

\* How the CLI may send an item it was given back to the service: as it was, or
\* without its id; a call is sent with its result.
Echoes(item) ==
  {item, [item EXCEPT !.id = None]} \cup
  IF item.kind = "function_call"
    THEN {[item EXCEPT !.kind = "function_call_output", !.id = None]} ELSE {}
=============================================================================
