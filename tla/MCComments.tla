----------------------------- MODULE MCComments -----------------------------
(* Values for the constants of Comments: a page with the sidebar and the   *)
(* editor's own view, and four loads.                                      *)
EXTENDS Comments, TLC

CONSTANTS u1, u2, sidebar, page, f1, f2

Talk   == [ops |-> {"post", "reply", "mention"}, writes |-> 3, reads |-> {}]
Change == [ops |-> {"post", "react", "edit", "remove", "escalate", "moderate"},
           writes |-> 4, reads |-> {}]
Count  == [ops |-> {"post", "reply", "react", "remove", "stats"},
           writes |-> 3, reads |-> {f1, f2}]
Watch  == [ops |-> {"post", "reply", "remove", "resolve", "view"}, writes |-> 2, reads |-> {f1}]
AllLoads == {Talk, Change, Count, Watch}
=============================================================================
