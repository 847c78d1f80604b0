--------------------------- MODULE ExecutionNode ---------------------------
(***************************************************************************)
(* graph.py ExecutionNode: the node an agent owns, and what of it survives *)
(* the JSON of a row.  A node is a record with the fields node (its id),   *)
(* exec, type, status, input, output, flag and ckpt; flag stands for       *)
(* metadata["idempotent"].  Names, times, cost and errors are left out:    *)
(* nothing but a listing reads them.                                       *)
(***************************************************************************)
EXTENDS Naturals

NodeType == {"PROMPT", "TOOL", "MEMORY", "BRANCH"}
Status == {"PENDING", "RUNNING", "SUCCESS", "FAILED"}

\* metadata["idempotent"]: missing, True, False, or not a boolean at all.
Flag == {"unset", "yes", "no", "other"}

NoBlob == 0             \* checkpoint is None; blobs are numbered from 1

\* Plausible bug: the type decides, whatever the flag says.
IsNoTool(k) == k.type # "TOOL"

\* is_idempotent: a boolean flag wins, else tools are not.
IsIdempotent(k) == IF k.flag \in {"yes", "no"} THEN k.flag = "yes" ELSE k.type # "TOOL"

-----------------------------------------------------------------------------
(* What a step may leave in input or output: nothing, a JSON value, one    *)
(* that JSON reads back as another (a tuple as a list, an integer key as a *)
(* string), and one that json.dumps refuses.                               *)
Value == {"none", "json", "tuple", "opaque"}
Json == {"none", "json", "list"}

\* Plausible bug: the object is kept next to its JSON.
AsIs(v) == v

JsonForm(v) == IF v = "tuple" THEN "list" ELSE v

\* to_json raises TypeError on any other node, and the save that called it.
HasJson(n) == n.input # "opaque" /\ n.output # "opaque"

\* to_dict, as json.loads gives it back: the blob is not part of it.
ToDict(n) == [n EXCEPT !.input = JsonForm(@), !.output = JsonForm(@), !.ckpt = NoBlob]

\* from_dict and from_json: the store adds the blob it kept apart.
FromDict(d, checkpoint) == [d EXCEPT !.ckpt = checkpoint]
=============================================================================
