---------------------------- MODULE MCCompletion ----------------------------
(* Completion over a small catalogue: Python, whose receivers are typed by *)
(* their literals, TypeScript on top of JavaScript, and Go with a package. *)
(* The labels are, in the order of strings, "DP table", "Node", "hash map  *)
(* lookup", "node", "starter program", "two pointers" and "value"; a       *)
(* source may declare Node, node and value.                                *)
EXTENDS Completion

MCToLower(l) == IF l = 2 THEN 4 ELSE l

LOCAL Members(list) == [q \in Qualifiers \cup Types |-> IF q \in DOMAIN list THEN list[q] ELSE <<>>]
LOCAL TypesOf(names) == [t \in Types |-> IF t \in DOMAIN names THEN names[t] ELSE ""]
LOCAL Std(label, rank) == Suggest(label, "standard_library", rank)

MCCatalog ==
  [python |-> [extends |-> "", globals |-> <<Std(7, 60), Std(3, 60)>>,
               members |-> Members([list |-> <<Std(3, 60), Std(4, 60), Std(7, 65)>>, dict |-> <<Std(4, 60), Std(3, 70)>>]),
               types |-> TypesOf([list |-> "list", dict |-> "dict"])],
   javascript |-> [extends |-> "", globals |-> <<Std(4, 60)>>,
                   members |-> Members([ArrayInstance |-> <<Std(4, 55), Std(7, 50)>>, fmt |-> <<Std(3, 60)>>]),
                   types |-> TypesOf([Array |-> "ArrayInstance"])],
   typescript |-> [extends |-> "javascript", globals |-> <<Std(3, 60)>>,
                   members |-> Members([fmt |-> <<Std(4, 60)>>]), types |-> TypesOf(<<>>)],
   go |-> [extends |-> "", globals |-> <<>>, members |-> Members([fmt |-> <<Std(3, 60)>>]), types |-> TypesOf(<<>>)]]
=============================================================================
