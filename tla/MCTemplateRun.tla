--------------------------- MODULE MCTemplateRun ---------------------------
(* Small instances of TemplateRun for TLC: every template of up to three   *)
(* steps made from a few shapes of steps.                                  *)
EXTENDS TemplateRun

Plain == [tag |-> NoTag, condition |-> FALSE, sets |-> NoTag, actions |-> <<>>,
          goto_times |-> 0, status |-> "none", use_python |-> FALSE,
          next |-> FALSE]

Silent == [sets |-> NoTag, status |-> "none", goto |-> NoTag]
Goto(t) == [Silent EXCEPT !.goto = t]
Answer(s) == [Silent EXCEPT !.status = s]
AskAndGoto(t) == [Goto(t) EXCEPT !.status = "progress"]
SetAndGoto(v, t) == [Goto(t) EXCEPT !.sets = v]

(* Steps with a tag or without, that go on, go to a tag or read it; with   *)
(* their own limit or the default one.                                     *)
Walkers ==
    {[Plain EXCEPT !.tag = t, !.actions = as, !.goto_times = n] :
        t \in {NoTag, "a", "b"},
        n \in {0, 2},
        as \in {<<Goto("a")>>, <<SetAndGoto("a", "b"), Answer("fail")>>, <<AskAndGoto(Expr)>>}}

(* Steps that end the session, run a script, set the tag or are skipped.   *)
Others ==
    {Plain,
     [Plain EXCEPT !.condition = TRUE],
     [Plain EXCEPT !.sets = "a", !.status = "progress"],
     [Plain EXCEPT !.sets = "b", !.condition = TRUE],
     [Plain EXCEPT !.status = "fail"],
     [Plain EXCEPT !.status = "finish_fetch_data", !.tag = "a"],
     [Plain EXCEPT !.use_python = TRUE, !.next = TRUE],
     [Plain EXCEPT !.actions = <<Answer("finish_fetch_data"), Goto("b")>>]}

Steps == Walkers \union Others
SmallTemplates == UNION {[1..n -> Steps] : n \in 1..3}

(* A step that goes back to itself, with the default limit.                *)
LimitTemplates == {<<[Plain EXCEPT !.tag = "a", !.actions = <<Goto("a")>>]>>}

(* dianping.json in small: two pages that note where to return to, and a   *)
(* step that returns there.                                                *)
ReturnTemplates ==
    {<<[Plain EXCEPT !.tag = "a", !.actions = <<SetAndGoto("a", "c")>>],
       [Plain EXCEPT !.tag = "b", !.actions = <<SetAndGoto("b", "c")>>],
       [Plain EXCEPT !.tag = "c", !.actions = <<Goto(Expr)>>]>>}
=============================================================================
