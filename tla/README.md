# authspider: specification and proofs

This directory holds TLA+ modules that model the concurrent and stateful core of
authspider, TLC configurations that check them on small instances, and proofs that
TLAPS checks for every instance. `PROJECT.json` is the index: components, runs,
theorems, the source lines of every definition, and the hazards the properties are for.

## 1. Inventory

authspider is a crawling service. A *template* (`etc/tmpls/*.json`) is a list of steps.
A caller sends `/submit?tmpl=...`; the service creates a *session*, which interprets the
template in a goroutine of its own, downloads pages, asks the caller for parameters
(user name, captcha) through the answers of later `/submit?id=...` requests, and ends with
an outcome: `fail` or `finish_fetch_data`. Around the sessions there is a batch pipeline
that turns rows of a MySQL table into `/submit` requests.

| component | source | state | operations | hard behaviour |
|---|---|---|---|---|
| request handling | `cmd/server.go` | none of its own; one goroutine per request | `Process`, `setArgs`, `ServeHTTP` | handlers of one session run at the same time |
| command cache | `cmd/cmd_cache.go` | map id -> session, a timer goroutine per entry | `SetCommand`, `GetCommand`, `Delete` | expiry at any moment; drop after an answer |
| session | `task/task_cmd.go` | channels `message` and `input` (30 each), `finished`, `needParam`, `args`, the Context | `run`, `SetInputArgs`, `GetMessage`, `Close`, `returnMessage` | five goroutines without a lock; close, nil and full channels; five endings |
| template interpreter | `task/task_cmd.go`, `task/step.go`, `task/action.go` | index of the step, counters of the gotos, the session's copy of the template | conditions, need_param, actions, gotos, messages, `next` | loops; order of the tests; gotos evaluated in place |
| template store | `task/manager.go`, `task/task.go` | parsed templates | `Get`, `FixInclude`, `GetSteps` | includes in random map order |
| downloader | `task/download.go` | client, cookies, extractor results | `Do`, client switching, `AddExtractorResult` | retries; merging of results |
| casperjs bridge | `casperjs/casperjs.go` | two channels of 10, the pipe of a process | `Run`, `ReadChan`, `WriteChan` | waits of five minutes; answers that come too late |
| casperjs scripts, their templates | `etc/casperjs/`, `etc/tmpls/` | `exit`, the page; the template's counters | what a script writes after each line, what the template makes of it | verdicts out of order, `readLine` for ever, twenty rounds |
| web pages | `site/app.js`, `site/app-qr.js` | `id`, the credentials, the form that is shown | `crawl`, `send...`, `getData` and its callbacks | one set of globals for all requests; answers out of order; timeouts |
| browser hub | `browserhub/browser_hub.go` | a WebDriver session | `DoSteps`, `Close` | retries against an external process |
| Context | `context/context.go` | key -> value | `Set`, `Get`, `Del`, `Parse`, template functions | none of concurrency |
| extractor, jsonpath | `extractor/`, `jsonpath/` | none | pure functions | boundaries of indexes and ranges |
| scheduler, consumer | `scheduler/`, `kafkaconsumer/` | handlers in flight | `Schedule`, `handle`, `getNextUrl` | destructive reads, crashes, stale copies |
| producers | `etc/python/util/redis_producer.py`, `kafka_producer.py`, spiders under `etc/python/` | cron jobs | `sched_job`, `update_spider` | read now, push later |
| tables, lists | `sql/` (access), MySQL, Redis | `crawling`, `crawled`, one list per template | statements, pushes, pops | every statement is its own transaction |
| event sinks | `flume/`, `hbase/` | a buffer under a lock, a ticker | `Send`, `SendAll`, `copyEvents` | appends during a copy; lost, late and doubled batches |
| records | `record/` | counters in Redis | `SendRecord`, `JudgeExtractResult` | read, modify, write |
| account queries | `acquery/` | maps behind HTTP | `WriteData`, `GetData` | blocking handlers |
| proxies | `proxy/` | list of addresses | `GetTmplProxy`, `GetLocalServiceProxy` | none |
| helpers | `cookie/`, `http/`, `util/`, `config/`, `kafkaproducer/`, `taobao/` | none | I/O, parsing, pages of single sites | none |
| third parties' code | `etc/js/`, the rest of `site/` | none of the program's | libraries that are served or injected into pages | none |

How they interact: a handler of `/submit` creates a session through the factory and lists it in
the command cache, later handlers find it there by id; handlers and interpreter talk through
the session's two channels; the interpreter calls the downloader, the Context, the browser and,
through `readCasper` and `writeCasper`, the goroutine of the casperjs bridge, which talks to a script
by lines on a pipe; the web pages are callers of `/submit`; the interpreter appends targets
to the list of another template (`nextToRedis`); the scheduler is a client of `/submit` of its own
process; producers, spiders and scheduler meet in the tables and lists only.

What makes each part correct:

- *Session, request handling, cache*: a session has one outcome, whoever reads it; while it lives
  the outcome can be fetched by its id; a session that ignores its input has announced its end;
  a request is answered within the live time, unless the session is closed between the lookup of its
  id and the read of its channel (such a handler is lost, and no later one is); the interpreter and
  the ticker block no longer than the live time; the cache drains.
- *Interpreter*: gotos are counted and bounded, they land on the step with the tag, every walk
  ends, with one outcome or, after a panic, with none.
- *Casperjs bridge*: the answer the process reads is the answer to its question; a template that
  reads is given a line unless `Run` has given the process up.
- *Scripts and templates*: a template takes a line for the verdict on the answer it was written
  after; nobody goes on as if logged in before the script says so; no code of the caller is thrown
  away; the process ends.
- *Web pages*: no crawl is left alone; what the user types reaches the session and the question it
  was typed for.
- *Scheduler, producers, tables*: a target is forgotten only by a failed insert or a spider that
  loses its batch, none is banned before it has had its tries, a find makes one row at most, every
  row is crawled or banned in the end unless its copies grow too old each time, a circle keeps its targets.
- *Event sinks*: an event that was accepted waits, is on its way, has arrived, or was given up
  after five sends or in a crash; batches arrive whole and five times at most.
- *Not modelled* (section 7): an include takes the right steps; the client of a step is the
  one it asks for; a merge of results keeps them; counters count.

## 2. Modules

| module | models | composed of |
|---|---|---|
| `SessionContract` | what a session promises its callers, without channels or goroutines | |
| `TaskSession` | request handling, command cache, session | implements `SessionContract` |
| `TemplateRun` | the interpreter's walk through the steps | |
| `CasperBridge` | bridge, between any process and any template | |
| `CasperScripts` | the lines of the nine scripts, and the templates' actions on them | |
| `CasperDialog` | bridge, scripts and templates | `CasperScripts`; implements `CasperBridge` |
| `WebClient` | the two web pages, and the sessions and handlers as they see them | |
| `Scheduler` | producers, lists, scheduler or consumer, tables | |
| `EventQueue` | what a buffer of events promises, without timers, tries and answers | |
| `EventSink` | the buffers of `flume` and `hbase` and their senders | implements `EventQueue` |
| `MC*` | instances of these for TLC | |
| `*Proofs`, `CasperDialogSafety` | theorems about these | `CasperDialogSafety` uses `CasperBridgeProofs` through the refinement |

Every module keeps the source's names. `PROJECT.json` names the lines of each definition.

**TaskSession.** Variables are the fields of `TaskCmd` (`message`, `input`, `finished`,
`needParam`, `writeResult`, `args`, and `ctx` for the keys of the Context), the cache entry and its
timer, and for each of the four kinds of goroutine where it stands: `pc` of each handler, `run`,
`ticker`, `timer`. A channel is a sequence and two flags, closed and nil: a send to a closed
channel panics (`recover` turns that into an empty answer of the handler, or into the end of the
interpreter), a nil channel blocks for ever, a closed one still delivers what is buffered.
`SetInputArgs` is two steps (`CheckFinished`, `PushInput`) because it reads `finished` before it
sends, `Close` is three (`CloseMessage`, `SetMessageNil`, `CloseInput`), a last message, its
`finished = true` and the return are `EndWith`, `RunCheck`, `RunLoad`, `RunSend` and `RunAfter`,
in the order each of the five endings has them. Which operation the template asks for next is
free (`TemplateStep`); `MaxSteps` bounds how many there are, deletes of what the others have put there apart. `StepPanics` is the other way out of a step:
`nextToRedis` indexes the rows of a SELECT that failed (`task_cmd.go:937`), the deferred `recover` (468) ends
`run`, nothing is said and `finished` stays as it was.

**TemplateRun.** `tmpl` is the template that was loaded, `prog` the session's deep copy, in which
`run` overwrites `action.Goto` with its value. An iteration is a head (`Skip`, `NoActionFires` or
one of four fates of the first action that fires) and a tail (`StepFails`, `StepFinishes`,
`PythonFails`, `NextStep`, or `NextPanics` when the step has a `next`). What a condition says and whether a download succeeds is free: it
depends on pages. Of the Context only the key a goto reads is kept (`tag`). The channels and
parameters of the same code are those of `TaskSession`, which leaves the order of steps free.

**CasperBridge.** `bridge` is where `CasperJS.Run` stands, `pipe` and `stdin` its ends of the
process, `output` and `input` the two channels. Lines are the kinds that `Run` tells apart, and
questions are numbered so that an answer can be told from a late one. The process is external: it
does what the scripts in `etc/casperjs` do, one question at a time, and may print any other line
and exit at any moment. `TakeAnswer` is where an answer of the caller is compared with `finish`
(`casperjs.go:152`): templates that pass on what the user typed (`tianyancha_long.json:25`, `chinatax.json:35`)
can send that word, and `Run` then stops reading as it does after a timeout; `gaveUp` notes which it was. The template is the loop of `jd_buyer.json` and its like, which may stop
whenever it is not reading.

**CasperScripts, CasperDialog.** A script is a table: `Opening` is what it writes before it reads,
`Round` what it may write after the n-th line it has read, given that line. What the page shows is the
choice in that set; what the script does on it is left out, as are the texts behind a
prefix. Every table row was read from one script: the loops of twenty rounds (`jd_buyer.js`,
`jd_shop.js`, `gjp_login.js`), with `exit` that is only looked at before the next `readLine`, and
those that ask and answer in a line (`lagou.js`, `taobao_ua.js`, `taobaoSearch.js`, `chinatax.js`,
`tianyancha_long.js`, `tianyancha_longtime.js`). PhantomJS has one thread, which `readLine` holds:
no timer of the script fires while it waits for a line (`Block`, `ReadLine`); `Die` is what timers,
alerts and errors do at any other moment. The template's side is `Answers`, `Verdict`, and the
counters of wrong codes with their limits (`Count`). The mapping to `CasperBridge` forgets the names
of the lines, and the process asks from the question it has written to the line it reads.

**WebClient.** `id`, `typed` and `form` are the page's globals: the session of the last answer,
the press of the button whose credentials it holds, and the question it shows. `open` are
requests the page waits for, `held` those in a handler, `back` the answers on their way, in
any order. A session is seen from outside: its messages in `queue`, its parameters in `data`,
`stage` what it waits for. A request names the session and the question that the user typed it
for, so that `used` can note a parameter that met another. Between its end and the end of its live time a session is out of the
cache but its channel is open: another handler that waits there waits until then. `odd` notes
what the properties name as reasons, never read by an action.

**Scheduler.** `crawling` with its columns `times` and `banned`, `crawled`, the list `queue` (or
the topic, or the circle) of copies, what the cron job has `picked` and not pushed, and for each
handler the statement it stands before. Each SQL statement is an action; `Fault` lets one fail, as
`HandleMysqlTable` only logs the error. `found` counts the finds that were checked and are not yet written,
by target and origin: spiders that look into both tables (`spider`), the hot topics, which look into none (`hot`),
chained templates (`next`), and `insurance_mysql.py`, which deletes the row first and inserts it
again with its batch (`Renew`). Two spiders may hold the same target, and each find becomes an insert of its own
(`AddRow`) at any later moment, also when the target has been moved; a batch that breaks off is `Lose`.
An insert for a row that is there already changes nothing: `insert ignore` (`weixin_task.py:24`,
`scheduler.go:142`) and updates by `tmpl` and `target` alone presume that this pair is the key of both
tables, whose schema is not in the repository. The copies of the cron job have no priority, as no active task
in `conf.yaml` has one, so `DropStale` may throw away any of them. `failures` and `rows` are history
variables: failed requests, and rows written for a target.

**EventSink.** `events` is the buffer that `Send` appends to and `copyEvents` empties, both under the
lock, which makes each one action; `batch` is what `SendAll` copied, `sender` where it stands, `n`
the round of its loop. `Post` puts a request into `net`, from where it is received or lost
at any time; `NoAnswer` is a timeout, a broken connection or a refusal, whatever became of the
request, and `ConnectFails` what fails before anything is sent. Events are numbered in the order of
`Send`. `abandoned` and `lost` are history variables. Flume takes one of several agents at random,
which behave alike; `hbase` posts to one address. The buffers differ in nothing else.

Definitions named `Bad...` are deliberately wrong variants of an action, such as a missing
assignment or a swapped order. No specification uses them: they show that a property would notice.

## 3. What the runs check

| run | question | bounds |
|---|---|---|
| `session_output` | one outcome, fetched once, announced; who is stranded; what is left open; contract | two callers with two requests each, channels of 2, one tick, one operation |
| `session_live` | requests end but those that `Close` overtakes, the interpreter unblocks, the cache drains | two callers, one key, channels of 1 |
| `template_small` | gotos, endings, termination | every template of one to three steps out of 26 shapes, two tags, `DefaultGotos` 1 |
| `template_limit` | is `goto_times` the maximum of gotos? *(violated)* | a step that goes to itself, `DefaultGotos` 30 |
| `template_return` | does a goto follow the Context? *(violated)* | two pages and a step that returns to one of them |
| `casper_safe` | answers, blocking | channels and pipe of 2, 7 lines |
| `scheduler_async` | bans, forgotten targets | one target that is a hot topic, renewed and chained, two handlers, `Times` 1, one copy that waits, one crash, one failed statement |
| `scheduler_circle` | a circle and its turns | two targets, two handlers, two fillings, a crash and a failed statement |
| `scheduler_live` | does every row settle, how many rows does a target get, do its tries go back? | two targets, each found twice at once, one handler, `Times` 1, a query of one row, two copies that wait, a crash |
| `dialog_scripts` | which script hangs, takes a stale line, runs out of rounds, is taken for a success; do the others behave; is it the bridge | all nine scripts, channels and pipe of 10, 30 lines |
| `web_pages` | is a crawl left alone, does an answer meet another question | each page, two presses of the button, two forms sent, one request given up, two messages between the first and the last |
| `sink_online` | copies, losses and order of events; contract; draining | three events, two sends of a batch, one crash |

Why the bounds are enough. Two callers are the least that can take each other's answers, and the
races are between one handler and `Close`, the ticker or the interpreter: a third caller adds no
pair. Channels of 1 or 2 fill up, which 30 would do only after 30 messages. A template of three
steps has every relation two gotos can have: forwards, backwards, to itself, to the first and to
a doubled tag; limits of 1 and 2 make the counters of shared tags pass each other. Seven lines
are two questions, their answers and what may come around them, and two slots fill up. Of the
scripts every row is run, with the capacities of the code; thirty lines are more than a dialog has before its
counters or rounds end, except `jd_shop`, whose captchas nobody counts and which is cut off there.
Two crawls are the least that can be mixed up; two forms are one that is sent again, or one for each
crawl; two messages are two questions, or one and a sign of progress. One case that `MeetsItsQuestion`
names needs three, and more time than a run has: a session whose form was crossed stays a question ahead of its
forms. Its theorem has no such bound. Two
copies of one row, one of them stale, are what `scheduler_async` is about: one waits or is read
while another is handled, by two handlers at once. The second target is what a limited query, a
circle and a queue need for an order. `Times` 1 is the least where one failure is not yet a ban, and where tries of 2 can go back to
1. Two finds are what two spiders hold, and the second may be inserted when the first has been moved.
Failed statements are in `scheduler_async` and `scheduler_circle`; a crash before a statement leaves the tables as its failure does. A Kafka topic differs from a list in `Crash` alone, which loses what
waits: no run has one, the proofs cover it. Three events are two batches, one of them with two
events, and two sends are the least where one is late and one is awaited. `CHECK_DEADLOCK` is off
where the system may really stop: goroutines end, a nil channel blocks for ever, work runs out.

`TemplateRun` leaves out the keep-alive messages; `session_output` leaves out parameters, and
`session_live` has one: the runs of a session are parts of a product that is too large. For a parameter to be
early there must be two, and two operations; `WaitsOnlyForMissing`, about these, is proved and in no
run. So are the type and inductive invariants, for all parts together.

Several properties say that something holds *except in named cases*. The cases are what the
code does (section 5), each can be reached, and each is as narrow as the code allows: `HangsAreKnown`,
`VerdictIsFreshButGjp` and `SuccessIsEarnedButTwice` name the script, `RoundsSuffice` the one template that
does not count; `Followed` and `MeetsItsQuestion` name, for each session, what must have happened to it;
`RequestsEnd` and `StrandedIsKnown` name the handlers that wait in vain, `NotForgotten` the two ways to lose a
target, `BlocksOnlyAfterGivingUp` the three to give a process up. They are failures of the code as much as
they are exceptions, and each has its line in section 5 or among the hazards.

## 4. Fairness

- *Handlers, interpreter, ticker, `Close`*: weak fairness of each goroutine's steps at a channel
  it holds, as the Go runtime runs what is ready; of the timer, as it fires. Nothing makes a
  template go on by itself or a caller send another request.
- *Interpreter's walk*: weak fairness of `Next`: one goroutine, whose downloads time out and whose
  waits for parameters `session_live` covers.
- *Bridge*: weak fairness of `Run` (goroutine and `time.After`) and of a process that waits for
  a line and reads it when there is one. None for the rest of process and template.
- *Dialog*: of `Run` as above, and of a script that goes on: the page answers, or a timer of the
  script (`waitTimeout`, `timeout`) ends the wait; none of the template.
- *Web pages*: callbacks run (`Browser`), handlers take messages that are there (`Server`), live
  times end (`Timers`). The user may press nothing, and a session may wait as long as it lives.
- *Scheduler*: the cron job fires again, the filling of a circle that was begun goes on, and
  handlers work: a request has a timeout of 60 seconds, and the service stops answering
  `in_crawling`, as the ticker has a limit. None for spiders, and crashes are bounded. Nothing says how long
  a copy waits, so `Settles` excepts the runs in which copies are dropped as too old (`scheduler.go:86`) infinitely often.
- *Event sinks*: weak fairness of the sender as one: the ticker ticks and every send ends, with
  an answer or the timeouts of 10 and 60 seconds. None for the network or the sessions.

## 5. What the code does otherwise than it says

- `goto_times` is exceeded by one: `retry > goto_times` is tested before the next goto is counted
  (`task_cmd.go:649`), so 31 gotos are made where the comment on the field (`step.go:106`) says that it is the
  maximum, 30 by default (`template_limit`). The bound that holds is `GotosBounded`, one more.
- A goto that is an expression is evaluated once: `run` assigns the value to the action
  (`task_cmd.go:642`). In `dianping.json` the captcha step returns with `{{.captcha_tag}}`, which
  two pages set (lines 63 and 136); the second captcha returns to the page of the first
  (`template_return`).

What the properties except by name, none of which a comment or a test denies:

- A handler that has its id and comes to `<-p.message` behind `Close` reads from a nil channel for ever
  (`task_cmd.go:291`, `358`): no `recover` and no timeout ends it. `RequestsEnd` names these handlers (`Lost`);
  `NoneLostAfterExpiry` says that a request that starts when the id is gone is never one of them.
- A panic of `nextToRedis` ends `run` without an outcome (`task_cmd.go:937`, `468`): callers get `in_crawling`
  from the ticker, or wait, until the session expires.
- `insurance_mysql.py:22` deletes a row it will insert again at line 57: a spider that stops between, or whose
  batch breaks off, loses the target; and a target it renews is crawled again, with its tries at 0.
- A find that was held while another was inserted (`itjuzi/tmp.py:16`, `34`) brings a row back after the target
  was moved. With the second row of a target its tries may go back, behind copies of the first.
- An answer of the caller that reads `finish` (`casperjs.go:152`) ends `Run` as a timeout does: the template that
  reads on blocks for ever, and `taobaoSearch.js` and `chinatax.js`, which take it for an answer, hang with it.
- `gjp_login.js` writes `wrong_password2` (131) and the verdict on the same page (138-146) in one round,
  so `guanjiapo.json:66-85` asks the user for another code and then reads a verdict that was there
  before; and its `fail` (113, 145) does not set `exit`: the script reads on, `Run` waits for its exit.
- Scripts that take any line for an answer do not end on `finish`, which `Run` writes after a timeout:
  `taobaoSearch.js:19-25`, `chinatax.js:41-44`, `tianyancha_long.js:149-152`. Process and `Run` then
  wait for each other; the log at `casperjs.go:178` says "has kill" before the kill.
- `tianyancha_long.js:237` writes `finish` and goes on to `need_path`, with the same end; its
  `console.log` (195, 201) is a line of its own, which `Run` turns into `fail###网络超时`.
- `lagou_login.json` and `taobao_ua.json` have no action for `fail`, so a script that died leads to
  the step for a success, with whatever the Context holds.
- `jd.json` does not count wrong captchas: the script's twenty rounds may end behind a question.
- `app.js` and `app-qr.js` keep one `id`, one form and one set of credentials for all requests: a second press
  of the button, or a late answer, takes the form off the page or sends what was typed to
  another session. `app.js` does not know `need_send_sms` and others, and stops polling there.

## 6. Proofs

`*Proofs.tla` prove for every value of the constants, under the assumptions the modules name:

| module | theorems | assumption |
|---|---|---|
| `TaskSessionProofs` | `TypeOK`, `IInv`, `OneOutcome`, `OutcomeReachable`, `FinishedIsAnnounced`, `OnlyCrawlingAfterOutcome`, `StrandedIsKnown`, `NoneLostAfterExpiry`, `WaitsOnlyForMissing`, `LeaksAreKnown`, and `Contract` by refinement | `SessionAssumption`: finite set of clients, capacities and bounds are numbers |
| `TemplateRunProofs` | `GotosBounded`, `EndsOnce`, `JumpLands`; that every step advances (`WalkAdvances`), and that the limits of the template as loaded hold (`LoadedLimitsHold`) | `TemplateAssumption`: templates are sequences of steps, tags differ from the three reserved values |
| `CasperBridgeProofs` | `IInv`, `RightAnswer`, `BlocksOnlyAfterGivingUp` | `BridgeAssumption`: capacities and bounds are numbers |
| `CasperDialogProofs` | `DInv`, `SuccessIsEarnedButTwice`, and `ImplementsBridge`: the refinement | `DialogAssumption`: of the tables, only that a script asks at most once before it reads |
| `CasperDialogSafety` | `HangsAreKnown`, `VerdictIsFreshButGjp`, `RoundsSuffice`, and what is proved of the bridge (`DialogKeepsBridge`) | `DialogAssumption`, and the rows of the tables in `CasperScripts` |
| `WebClientProofs` | `TInv`, `Followed`, `FormReaches`, `MeetsItsQuestion` | `ClientAssumption`: the pages and questions are those of the code, bounds are numbers |
| `SchedulerProofs` | `TypeOK`, `BanEarned`, `NotForgotten`; `RowsBounded`; `CircleKeeps`; `TimesNeverDecrease` | `SchedulerAssumption`: finitely many targets, bounds are numbers. The last three assume a way to deploy the scheduler each: `RowsBounded` no hot topics and no renewing spider, which both write rows without looking; `CircleKeeps` a circle that no chained template adds to; `TimesNeverDecrease` one handler, and a list or a topic that no chained template adds to |
| `EventSinkProofs` | `IInv`, `CopiesBounded`, `NothingForgotten`, `LateOnlyIfAbandoned`, and `Contract` by refinement | `SinkAssumption`: bounds are numbers, one send at least |

The argument is the same everywhere: an inductive invariant holds initially and is kept by each
action, one step of the proof per action, and implies the property.

- *Session.* `OneOutcome` is not inductive: an ending must know that no other has sent. `CloseInv`
  says that `Close` works in order and only on a listed session, `CallerInv` that the creator is
  alone until it lists the session and that a waiting caller holds no outcome, `RunInv` that
  `run` holds an outcome exactly on the way to an ending, `OutcomeInv` that an outcome is in one
  place, was sent on the way to an ending, is announced before `finished`, and is taken before
  the id is dropped. Refinement maps `cached` and `timer` to `listing` and `expired`, the place
  of the outcome to `outcome`; each action is a step of the contract or a stutter. `EndInv` adds what
  `LeaksAreKnown`, `WaitsOnlyForMissing` and `StrandedIsKnown` need of the way an ending was reached; the lemma `MessageMoves`, on
  `Append` and `Tail` of the channel, carries `OnlyCrawlingAfterOutcome`.
- *Template.* The types, with `GotosBounded` and `EndsOnce`, are inductive; the counters change only
  in `Jump`, whose guard is the bound. `JumpLands` needs that the set of steps with a tag has a
  largest index, which `LargestIndex` derives from the well-foundedness of the naturals. `AssignKeeps`: evaluating
  a goto in place moves no tag and no limit; so `SameWalk` relates the session's copy to what was loaded. `WalkAdvances`
  gives each point of an iteration a `Place` on the way to the end.
- *Bridge.* `RightAnswer` needs to know where a question is: `OneQuestion` says that while `Run`
  lives there is at most one on its way, the one asked last, in the pipe, with `Run`, in
  `output`, with the template, or as an answer in `input`. `LastLineComes` says that a last line
  is behind everything else once `Run` sends no more; `ProcessKnown` follows the process.
- *Dialog.* `DInv` is the types, and that a script with an open question is not about to write
  another. The mapping applies a function to each line of a channel: the lemmas `Mapped...` say that it
  commutes with `Append`, `Head` and `Tail`. Every action is one of the bridge's, or changes only what the
  mapping forgets, so `RightAnswer` and `BlocksOnlyAfterGivingUp`, proved of the bridge, hold of
  the scripts and templates of the repository. `EarnedInv` says that a success in the pipe, with `Run`, in
  `output` or with the template was written by the script: `Backed` of each channel.
- *Scripts.* The other three properties are about single scripts, so their proofs open the tables: one lemma
  says what the rows of a group of scripts have in common (`FinishIsTheEnd`, `AfterLastNothing`, `LastRoundEnds`,
  `FewSays`), and the steps cite it. They need the bridge's invariant, which the refinement carries over
  (`SameNext`: the bridge that
  `CasperDialog` refines and the one the proofs are about are one); from it `OneAsked` says that a process
  with a line to read has a question open, which is the only one. `HangInv`: a script that ends on `finish`
  does, and but for two, one that has said its last line reads no more; `JdInv` knows the questions of two scripts. For fresh verdicts, the
  lines in `output`, with `Run` and in the pipe are one `Stream`: each was written after all answers given so far or comes from
  an end, and what stands behind a question was written after its answer (`Behind`), so
  the next answer makes none of them stale. `CountInv` ties questions to rounds. For rounds, `FewInv`: answers
  are the first two and those to counted questions, with at most four of each kind, hence ten and `finish`; `MayAsk`,
  `MayAnswer` and `MayRead` give the order in which questions come, by the counters; a script with fewer rounds
  ends in its last (`RestInv`).
- *Web pages.* `Followed` needs `Numbered`: a request is in one place, and one on its way is waited for,
  so answering one takes no other from the page. `FormReaches` needs that a session that was found
  gone does not come back. `MeetsItsQuestion` needs the place of each question: while a session works and its
  forms were neither crossed nor sent twice, the question it waits for is in its queue, on its
  way, on the page, in its input or in `args`, in one of these, once, with the number it asked last, and one it does
  not wait for is nowhere (`FreshAt`, by `OnePlace`, `Current` and `Nowhere`). `ParamInv` follows
  whom a parameter was typed for. The proof corrected the property: a session whose form was crossed
  goes on a question ahead, so its later parameters meet other questions even when nothing is crossed again.
- *Scheduler.* `BanEarned` holds since no number of tries is ahead of the failures, in a row, in a
  copy or about to be written: `CountInv` says so by the set `Earned` of possible copies, however
  many, doubled or stale. `StoredInv` says that what a handler has stored is in `crawled`.
  `NotForgotten` is an action property, shown for each action from these two. For `RowsBounded`, `RowsInv`: the
  rows a target has had and the finds of it that its spiders hold are `MaxFinds` together at most, and a target
  that has had a row is in a table, so that nobody finds it again. For `CircleKeeps`, `CircleInv`: no target is in the circle twice, and all are in it
  that do not wait to be filled in, hence as many. For `TimesNeverDecrease`, all copies of a row stand in one line, what the handler holds first,
  then the list, then what the cron job has read; in this order their tries do not go back and none is more than one off the row
  (`Ordered`, `NearCopy`), which each push to the end and each pop from the front keeps (`Grow`, `Shrink`). All this
  is said of a target with one row so far (`Single`): a late find or a renewed row starts at 0 behind older copies.
- *Event sinks.* `CopiesBounded` counts requests: `RequestInv` says that two of them have the same events or
  none in common, so those with one event differ in `n`, which is an injection into `1..Retries`.
  That needs `BufferInv` and `BatchInv`, the order of buffer and batch, and `Older`, the place of
  each request in that order; with `LateInv`, what is on its way is awaited or was given up,
  `LateOnlyIfAbandoned` follows. Refinement maps `taken` to what has left the buffer.

Every safety property of the passing runs is stated by a theorem, and `WaitsOnlyForMissing` besides. Only model-checked is what holds under
fairness, which the provers cannot do: `RequestsEnd`, `RunUnblocks`, `CacheDrains`, `Terminates`, `EveryTurn`,
`BufferDrains`, `ProcessEnds` and both `Settles`. For `Terminates` the argument is proved up to the
last step: `WalkAdvances` says that each step counts a goto or comes closer to the end of a template whose length
stays, and `GotosBounded` that gotos run out; that a measure of this kind runs out is induction, which is
out of the provers' reach, as are ENABLED and RECURSIVE operators; no module uses the latter.

## 7. What is left out

Within the modelled parts: the query parameters of a request are the set of its keys; the
statuses `finish_all` and `tmpl_block` are never sent by the code; a target belongs to one template; polling while `in_crawling` is one step;
the number of goroutines of an async task is the number of `Workers`; a panic of the bridge when its
process could not be created (`task_cmd.go:155`) would end the whole service and is a hazard
without a property. A request of a page is at the server at once, and one page is open at a
time. The `randcode` and `skip` lines, which no script writes, are left out of the dialog.

Not modelled, and why:

- *Third parties' code* is most of the JavaScript by lines: the slider, login frame and fingerprints
  of crawled sites (`site/nc_ae.js`, `mini-login-min.js`, `um.js`, `ua_*.js`), jQuery and its plugins, a date picker,
  crypto libraries and the pages of the tax office (`etc/js/`). They are data to the program. Of its own
  JavaScript, some 2000 lines, `CasperScripts`, `CasperDialog` and `WebClient` model what is in use;
  `taobao_login.js`, `tianyancha.js`, `tianyancha_human.js`, `wenshu.js`, `zhixing.js` and `test.js`
  are started by no template, so nothing says what their lines lead to.
- *Downloader*: one goroutine's sequence of HTTP calls and client switches; what is hard in it, that a client
  is not restored (`download.go:366`, `394`) and that `_body` is stale after a failure (`step.go:341`), is a hazard.
- *Records* (`count.go:21` loses updates of two sessions that end together), *account queries* (`acquery/main.go:53`
  writes two stores, one of which may fail): visible in a line, and read by nothing in the program.
- *Template store, extractor, jsonpath, Context*: functions of files, HTML, JSON and strings.
- *Thrift, browser hub, proxies, entry points, helpers, single sites*: generated code and wrappers around I/O.

What would come next: the client of a step, as a module of the downloader with `Step.Do`; the composition of
`TaskSession` with `Scheduler` and `WebClient` through `SessionContract`; and, as `WalkAdvances` does for the
interpreter, the steps towards an end in the other components with a liveness property: the sends of a
batch, the tries of a row, the live time of a session.
