---------------------------- MODULE CasperScripts ----------------------------
(***************************************************************************)
(* The casperjs scripts that templates start, and what those templates     *)
(* make of their lines.  A script writes some lines, reads a line, writes  *)
(* some more, and so on: what it writes after a line it has read depends   *)
(* on the page, so it is a set.  Lines and answers are known by the prefix *)
(* that CasperJS.Run, the scripts and the templates compare.               *)
(***************************************************************************)
EXTENDS Naturals, Sequences

Scripts == {"jd_buyer", "jd_shop", "gjp_login", "lagou", "taobao_ua",
            "taobaoSearch", "tianyancha_longtime", "tianyancha_long", "chinatax"}

Ask == {"need_path", "need_username", "need_randcode", "wrong_randcode",
        "need_password2", "wrong_password2", "need_password3", "wrong_password3",
        "need_sms", "need_key", "need_code", "need_time", "need_token", "need_url"}
Told == {"version", "set_params", "html", "html4", "html8"}
Final == {"cookie", "finish", "fail"}
Result == {"cookie", "finish", "html8"}
Name == Ask \union Told \union Final \union {"noise"}

(* What Run makes of a line.                                               *)
KindOf(name) == IF name \in Ask THEN "need"
                ELSE IF name \in Told THEN "tell"
                ELSE IF name \in Final THEN "last" ELSE "strange"

(* The lines until the next one is read, or until the script ends.         *)
On(say)  == [say |-> say, end |-> FALSE]
End(say) == [say |-> say, end |-> TRUE]
Outcome == [say : Seq(Name), end : BOOLEAN]

-----------------------------------------------------------------------------
(* casper.repeat(20, ...): a line is read in every round until exit is set *)
Rounds(script) ==
    CASE script \in {"jd_buyer", "jd_shop", "gjp_login"} -> 20
      [] script = "chinatax"                             -> 3
      [] script \in {"taobaoSearch", "tianyancha_long"}  -> 2
      [] OTHER                                           -> 1

Opening(script) ==
    CASE script \in {"jd_buyer", "jd_shop", "gjp_login"}    -> {On(<<"need_path">>)}
      [] script \in {"lagou", "tianyancha_longtime"} -> {On(<<"need_username">>)}
      [] script = "taobao_ua"                        -> {On(<<"need_token">>)}
      [] script = "taobaoSearch"                     -> {On(<<"need_url">>)}
      [] script = "chinatax"                         -> {On(<<"need_code">>)}
      [] script = "tianyancha_long" ->
            {On(<<"need_path">>), On(<<"finish", "need_path">>),
             On(<<"finish", "finish", "need_path">>)}

(* Wrong on purpose: a wrong captcha is told and the page judged as well.  *)
BadHandleText(script, first) ==
    {End(<<"fail">>), End(<<"cookie">>), On(<<"wrong_randcode", "fail">>)}

(* handleText: every message of the page but those of the captcha and the  *)
(* second password ends the script.  first: no captcha was sent yet.       *)
HandleText(script, first) ==
    {End(<<"fail">>), End(<<"cookie">>), On(<<"wrong_randcode">>),
     On(<<"need_password2">>)}
    \union (IF first THEN {On(<<"need_randcode">>)} ELSE {})
    \union (IF script = "jd_shop" THEN {On(<<"need_password3">>)} ELSE {})

JdRound(script, step) ==
    CASE step = "path"      -> {On(<<"need_username">>)}
      [] step = "finish"    -> {End(<<>>)}
      [] step = "username"  -> {On(<<"need_randcode">>)} \union HandleText(script, TRUE)
      [] step = "randcode"  -> HandleText(script, FALSE)
      [] step = "password2" -> {End(<<"cookie">>), On(<<"wrong_password2">>)}
      [] step = "password3" /\ script = "jd_shop" ->
            {End(<<"cookie">>), On(<<"wrong_password3">>)}
      [] OTHER              -> {On(<<"fail">>)}

(* A wrong code of the short message is told and the page judged all the   *)
(* same; fail does not set exit.                                           *)
GjpVerdict(said) ==
    {End(said \o <<"version", "cookie">>), On(said \o <<"fail">>)}
GjpRound(step) ==
    CASE step = "path"     -> {On(<<"need_username">>)}
      [] step = "finish"   -> {End(<<>>)}
      [] step = "username" -> {On(<<"need_sms">>)} \union GjpVerdict(<<>>)
      [] step = "sms"      -> GjpVerdict(<<>>) \union GjpVerdict(<<"wrong_password2">>)
      [] OTHER             -> {On(<<"fail">>)}

(* finish does not end the script in every one: the rest of the callback,  *)
(* or even what is queued behind it, may still run.                        *)
ChinataxRound(round, answer) ==
    CASE round = 1 -> {On(<<"need_time">>)}
      [] round = 2 -> {On(<<"html", "html", "html", "html4", "need_randcode">>)}
      [] OTHER     ->
            LET parsed == <<"html", "html", "html", "html8", "html8", "finish">> IN
            IF answer = "casper_finish"
            THEN {End(<<"finish">>), End(<<"finish">> \o parsed)}
            ELSE {End(parsed)}

SearchRound(round, answer) ==
    IF round = 2 THEN {End(<<"finish">>), End(<<"fail">>)}
    ELSE IF answer = "hasFinished" THEN {End(<<"finish">>)}
    ELSE {On(<<"need_path">>)}

(* loopBody that waits in vain says so and goes on; console.log is a line. *)
Loop == {<<>>, <<"finish">>}
LongRound(round) ==
    IF round = 1 THEN {On(<<"need_key">>)}
    ELSE {End(l \o <<"finish">>) : l \in Loop}
         \union {End(l) : l \in Loop}
         \union {End(l \o <<"set_params">> \o m \o <<"noise">> \o rest) :
                    l \in Loop, m \in Loop, rest \in {<<>>, <<"html", "finish">>}}

LongtimeRound ==
    {End(<<"cookie">>), End(<<"fail", "cookie">>), End(<<"fail", "fail", "cookie">>)}

(* What a script may write when it has read its answer in this round.      *)
Round(script, round, answer) ==
    CASE script \in {"jd_buyer", "jd_shop"} -> JdRound(script, answer)
      [] script = "gjp_login"               -> GjpRound(answer)
      [] script = "chinatax"                -> ChinataxRound(round, answer)
      [] script = "taobaoSearch"            -> SearchRound(round, answer)
      [] script = "tianyancha_long"         -> LongRound(round)
      [] script = "tianyancha_longtime"     -> LongtimeRound
      [] script = "lagou"                   -> {End(<<"cookie">>)}
      [] script = "taobao_ua"               -> {End(<<"finish">>)}

-----------------------------------------------------------------------------
(* The templates                                                           *)

(* What the action with the prefix of a question writes.  Most join a word *)
(* of their own with what the caller gave; four write just that, so that   *)
(* it may read finish (taobao_ua.json:19, tianyancha_long.json:25,         *)
(* chinatax.json:35, shop_rate_ali_search_page.json:31).                   *)
Answers(script, name) ==
    CASE name = "need_path"     -> {"path"}
      [] name = "need_username" -> {"username"}
      [] name \in {"need_randcode", "wrong_randcode"} ->
            IF script = "chinatax" THEN {"params", "casper_finish"} ELSE {"randcode"}
      [] name = "need_sms"      -> {"sms"}
      [] name \in {"need_password2", "wrong_password2"} ->
            {IF script = "gjp_login" THEN "sms" ELSE "password2"}
      [] name \in {"need_password3", "wrong_password3"} -> {"password3"}
      [] name = "need_url"      -> {"url", "hasFinished", "finish"}
      [] name = "need_key"      -> {"key", "finish"}
      [] name = "need_code"     -> {"code", "finish"}
      [] name = "need_time"     -> {"time"}
      [] name = "need_token"    -> {"token", "finish"}
Answer == {"path", "username", "randcode", "params", "casper_finish", "sms",
           "password2", "password3", "url", "hasFinished", "key", "code", "time",
           "token"}

(* The counter of the template that a question adds to, and how far it may *)
(* go before a wrong answer fails the session (99: no limit).              *)
CounterOf(script, name) ==
    CASE script \notin {"jd_buyer", "gjp_login"}           -> "none"
      [] name \in {"need_randcode", "wrong_randcode"}      -> "picture"
      [] name \in {"need_password2", "wrong_password2", "need_sms"} -> "message"
      [] OTHER                                             -> "none"
Limit(name) ==
    CASE name = "wrong_randcode"  -> 3
      [] name = "wrong_password2" -> 2
      [] OTHER                    -> 99

(* Where a line that is not a question leads: on to the next line, to the  *)
(* steps of a successful login or result, or to the end.  A line that no   *)
(* action has a prefix for falls through to the step behind, which is the  *)
(* one for a success in lagou_login.json and taobao_ua.json.               *)
Verdict(script, name) ==
    CASE name \in {"version", "set_params", "html", "html4"} -> "none"
      [] name \in Result -> "won"
      [] OTHER -> IF script \in {"lagou", "taobao_ua"} THEN "won" ELSE "lost"
=============================================================================
