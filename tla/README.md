# Verification of the log parser's telemetry pipeline

TLA+ modules, TLC configurations and TLAPS proofs kept beside `src/ulstp`, the package that
collects log messages over UDP, TCP and files, makes lossless events of them, and delivers
the events to a SIEM. Every definition is written from the code; the tests and documents say
what the code is meant to promise. `PROJECT.json` maps definitions to source lines, names the
runs and lists, at their lines, the hazards the properties are for.

    tlc -config Delivery.cfg MCDelivery        (one line per run, see "Runs")
    tlapm DeliveryProofs.tla                   (and so for every module that ends in Proofs)

## 1. Inventory of the system

    datagrams, connections, files                       HTTP requests
             |                                                |
      collectors (a thread each) -- emit() --> in_queue       |  process_text()
                                                  |           |  in the handler's thread
                                  pipeline worker (1 thread)  |
                                       \_____ _process_event _/      module Resolution
                                       \_________ _record ___/       history, sink
                                                  |
                                     DeliveryManager.submit()
                                         queue -> worker -> target (peer, server, file)
                                                        \-> spool file (fallback)

| Component | State it keeps | Operations | What is hard | What makes it correct |
|---|---|---|---|---|
| Delivery manager (`delivery.py`) | bounded queue, `_stop`, worker thread, the batch in a thread's locals, status and attempts of each event | `submit`, `_run`, `_deliver_batch`, `_safe_deliver`, `_spool_event`, `start`, `stop`, `_drain_sync` | submitters, worker and a draining main thread at once; a join that gives up; exceptions half-way through a batch; late or odd answers | one holder per event; a true and final verdict for each; bounded retries; counters that agree |
| Targets (`delivery.py`) | a socket or file | `deliver(batch)`, `close` | partial success; indexed but not answered; sent but lost; text that cannot be encoded | what is returned as delivered went out, and where a target answers, was taken |
| TCP framing (`framing.py`) | buffer, style | `feed`, `_extract`, `decode_message` | the stream is cut anywhere; two styles told apart by content | messages whole, in order, once; memory bounded |
| Collectors (`collectors.py`) | stop flag, socket, connection count under its lock, list of threads | `_run`, `_accept_loop`, `_handle`, `_emit_frame`, `CollectorStage.emit`, `replay`, `start`, `stop` | overflow in mid-chunk; joins of 5 s against a `recv` of 30 s; a place taken in one thread and given back in another | every received event is queued, or turned away and counted; places are counted exactly and come back |
| Pipeline (`pipeline.py`) | `in_queue`, `_stop`, `_history` | `start`, `_run`, `process_text`, `_record`, `stop`, `wait_until_drained` | the worker and API threads share history, sink and metrics; exceptions of a parse | every queued event is recorded once, in order |
| Event processing (`pipeline.py`, `normalize.py`) | one event | `_process_event`: route, parse, chain, reconcile, limits, identify, validate, count | the order of the stages; two layers merged into one event | the status says what the parsers did; nothing original is lost |
| Detection and registry (`format_detection.py`, `registry.py`) | none | `detect_format`, `detect_formats_multi`, `resolve`, `resolve_with_hint`, `resolve_inner` | overlapping signatures; hints for texts they were not meant for | a hint never bypasses a signature |
| Source identification (`source_id.py`) | definitions | `pre_parse_hint`, `identify` | several definitions match | the definition that steers is the one credited |
| Parsers (`parsers/*.py`) | none | `accept`, `parse` | cut-off texts, nested syslog, duplicate keys, escapes, where a value ends | a status and originals that are honest; no pair lost or put under another's name |
| Runtime, CLI (`runtime.py`, `cli.py`) | the components | `start`, `stop`, `cmd_replay`, the end of the process | the order of the stops; threads that outlive their join | nothing accepted vanishes |
| HTTP API (`api.py`) | a server thread | `POST /api/parse`, `GET` views, `stop` | a second producer beside the collectors | as for the pipeline |
| Metrics (`metrics.py`) | counters under one lock | one method per counter | written from every thread | the counters agree with the events |
| Configuration, limits, errors, event model | values read once | load, check, format | defaults | - |

Components talk by calls (`emit`, `submit`, `deliver`), two queues, the events themselves (one
object from `emit` to the verdict) and two flags per thread (`_stop` and the thread's end, which
`join(timeout)` looks at). Every thread but main is a daemon: it ends with the process.

## 2. Modules

| Module | Models | Its state and the code's |
|---|---|---|
| `Targets` | one `deliver()` call of each target | no state: the set of outcomes (`sent`, `taken`, `marked`, `failed`, `returned`, `raised`) a call may have; `sent` is what the adapter can see, `taken` what became of it |
| `Delivery` | `DeliveryManager` | `queue`, `stop` as named; `held[t]` is what thread `t` references in `event`, `batch`, `pending`; `attempt[t]` is the loop counter; `pc[t]` names the blocking calls between which a thread runs; `status`, `attempts` are the events' fields; `metrics` the counters |
| `Custody` | nothing of the code: the manager's promise | accepted events, verdicts, what is gone |
| `MessageStream` | nothing of the code: a framed connection's promise | sent, got, skipped, ended |
| `TcpFraming` | `TcpFramer`, `TcpCollector._handle`, `_emit_frame` | `buffer`, `style`, `frames` are the framer's; `wire` the bytes in flight; `ending` why the thread ended |
| `Listener` | `TcpCollector`'s accept loop, the life of each connection's thread, `stop` with its joins | `count` is `_conn_count`, `lock` who holds `_conn_lock`, `saw` what the holder has read, `threads` is `_threads`; `apc`, `at[c]`, `spc` are where the accepting thread, connection `c`'s thread and `stop` are; `left`, `rejections` observe |
| `Runtime` | collectors, pipeline, API, start and stop, or the replay of a file; it extends `Delivery` and composes with it | `inq` is `in_queue`, `history` is `_history`, `cpc`/`ppc`/`apc` the threads; calls that cross the border (`_record` to `submit`, `Runtime.stop` to `DeliveryManager.stop`) are joint steps with `Delivery`'s own actions |
| `Resolution` | `_process_event` and all it calls | `stage` is the position in `_process_event`, `event` the event, `routed` what `resolve_with_hint` returned, `message` the envelope's inner text |
| `Texts` | `tokenize_kv`, `_parse_extension`, `cef_unescape`, `_split_attrs`, `_unquote`; `serialize_leef` of `delivery.py` | no state: where an item of a text ends, what a raw value decodes to, what is written |
| `KeyValues` | `_parse()` of `kv.py`, `fortigate.py`, `cef.py`, `leef.py` | `pos`, `pairs`, `dups`, `unpaired` are the tokenizer's; `fields`, `vendor`, `unknown`, `originals` the layers of the result; `spans`, `found`, `written` observe |
| `JsonFields` | `_parse()`, `_pairs_hook` and `_flatten` of `json_parser.py` | `doc` is what the text says; `out`, `dup` are `_pairs_hook`'s dictionaries for each object and `read` how far its loop is; `calls` the calls of `_flatten` that have not returned; `flat` the flat dictionary in its order; `originals`, `fields`, `unknown` the layers |
| `StructuredData` | `_split_sd` of `rfc5424.py` | `rest` is the text after the header, `sd` and `message` what is returned; `meant` observes |
| `DeliveryProofs`, `ListenerProofs`, `RuntimeProofs`, `ResolutionProofs`, `TcpFramingProofs`, `KeyValuesProofs`, `JsonFieldsProofs` | - | theorems about `Delivery` and its refinement of `Custody`, `Listener`, `Runtime`, `Resolution`, `TcpFraming`, `KeyValues` and `JsonFields` |
| `Lemmas` | - | what several proofs use of the community modules: least and greatest numbers, glued pieces, and how often a key has come |
| `MCDelivery`, `MCTcpFraming`, `MCListener`, `MCRuntime`, `MCResolution`, `MCKeyValues`, `MCJsonFields`, `MCStructuredData` | - | the small instances |

In `Delivery`, `Listener` and `Runtime` a thread's step runs from one point where another thread can matter
to the next: a queue operation, the call of a target, a look at a flag, the end of a sleep. The
environment (peer, disk, clock, clients) chooses outcomes from sets. Variables under "what an
observer knows" (`sent`, `wire`, `disk`, `calls`, `submitted`, `early`, `lost`, `arrived`, `rejected`,
`abandoned`) are never read by a thread; the properties are about them.

Abstractions, with what they cost:

- An event is a value; what matters of its text to delivery is whether UTF-8 can encode it
  (`Surrogate`), and, for the syslog targets' "surrogateescape", whether that can
  (`LoneSurrogate`). Such texts arise from an escaped lone surrogate in JSON or a file that is
  not UTF-8.
- A batch is a set: "the events before the one that raised" is any subset of the others, which
  is weaker than the code's order and so adds behaviours but hides none.
- The QRadar target is the syslog target with another serializer: one kind stands for both. Neither
  reads an answer: what the peer takes of a batch is any part of what was tried, whatever the sends
  returned, so a datagram may be lost, a connection may break behind a send, and a line may arrive
  although its send timed out.
- In `TcpFraming` the append of a chunk to the buffer, the test of the guard, the cut of one frame, the
  end of a connection in error and the emission of a frame are a step each, so that what is held between
  two of them is seen. The conforming
  peer keeps to one style; `AnyFirst` says whether its first message may look like the other.
- A Tcp collector in `Runtime` is a thread that accepts and one for each connection (`Connections`),
  all running beside each other; a connection is accepted once, and the cap and the count of places are
  left to `Listener`. An event is counted and put in two steps, with no lock around them, as in
  `emit()`. Each of the threads may outlast its join: a connection in `recv`, any thread in a `put`.
  `stop()` joins the threads of a collector one after the other; the model makes one step of it, when
  all of them have ended or outlast it. `Listener` does not have what a connection's bytes
  are: a thread there receives, emits and goes on or leaves. Reading and writing `_conn_count`
  are two steps, so that the lock matters. An `OSError` of `accept()` goes round the loop as a
  timeout does.
- A replay in `Runtime` is main's own collector without `_stop`. `wait_until_drained()` is a matter
  of real time: the model lets the replay print at any moment after the last line.
- In `Resolution` a text is a sequence of layers, syslog headers and then a body, and each regular
  expression of detection and parsers is an operator on such sequences. Only the features that
  some rule of the code tells apart are there: that a JSON text has spaces, that an ASA message
  has `key=value` tokens, that an RFC 3164 header has no tag. The single fields a parser extracts,
  the error list and the notes are left out; a field limit that is exceeded and a typed field with
  a bad value are choices (`KeyValues` and `JsonFields` have the fields of the formats in which keys
  can come again). While it was written, the operators were compared with the program
  itself, the layers written out as text, on 8,256 pairs of text and hint: parser chain, format,
  status, decision and identity agreed on all of them.
- In `KeyValues` a text is a sequence of characters: letters and digits stand for their classes
  (the one letter that an escape gives a meaning, `n`, is there), the punctuation is what some
  rule looks at. `\r` is treated by the code as `\n` is, `_`, `.` and `-` in keys as letters are
  where it matters. A name is a key and the number of its occurrence, which stands for `key#2`;
  keys have no `#` in these formats. The headers of CEF and LEEF are cut off before. QRadar's side
  of the LEEF attributes, and conforming senders, are external. The model's outcome was compared with
  the four parsers on 33,189 texts (those of up to four characters, and the written ones) and on
  57,463 more with a quoted value of any five of six characters: originals, unknown and vendor
  layers, fields and status agreed on all of them.
- In `JsonFields` a document is a tree whose positions stand for the values there; keys are sequences of
  pieces of which `#` and `.` are two, so that keys can spell each other's numbers and paths. The
  number in `key#3` is spelled with three digits. The hook reads one pair of one object in a step,
  an object before the one it is in; the recursion of `_flatten` is a stack of calls. Compared with
  `JsonParser` on the 12,512 documents of the instance, all agreed. A key that begins with `@` and is in no map keeps
  its name when its value is a list; that is left out. `StructuredData` was compared with `_split_sd`
  on all 5,103 texts of its instance, with the same result.
- Metrics are incremented one at a time under a lock, so a single step each.
- Clocks: a timeout is a step that may happen wherever the awaited thing can take longer than the
  timeout (the joins of 15, 5 and 10 s against backoffs that sum to 31 s, requests of 10 s, a
  `recv` of 30 s, a `put` of 5 s).

## 3. Runs

Passing runs find no error; a violation run shows one disagreement between what a document,
comment or test says and what the code does.

| Run | Instance | States | What it shows |
|---|---|---|---|
| `delivery` (`Delivery.cfg`) | 3 events, one of them poison (a lone surrogate), 1 submitter, queue 1, batch 2, 1 retry, each kind of target; well-formed replies, healthy disk | 434,278 | `SingleCustody`, `VerdictsAreTrue`, `RetryThenSpool`, `MetricsAreExact`, `AttemptsAreExact`, `StopDrains`, `SettledIsFinal`; the refinement of `Custody` (`KeepsPromise`); under fairness `SubmittedSettles` and `WorkerExits` |
| `delivery_faults` | the same with 2 submitters, two kinds of bad text, an OSError of the spool at any write, malformed and short `_bulk` replies | 1,140,037 | `MetricsAreExact` and `KeepsPromise` still hold (`RetryThenSpool` too, by the theorem `BoundedRetries`) |
| `tcp_framing` | up to 3 of 5 short messages (one that reads as an octet frame, one with a space, one with a line feed, one too long), both styles, chunks of 1 to 5 bytes, limit 3, prefix 2, headroom 3 | 129,522 | `KeepsOrder` (the refinement of `MessageStream`), `LossIsCounted`, `HoldsLittle`, under fairness `MessagesArrive` |
| `listener` | 3 clients, 2 places, threads that may not start, `stop` at any moment | 175,785 | `PlacesAreExact`, `StopSeesAll`, `TurnedAwayOnlyWhenFull`, under fairness `PlaceComesBack` |
| `runtime` | 2 events, a listener with 2 connections, the API, queues of 1, spool target, start to exit; or a replay | 936,896 | `NothingVanishes`, `HistoryInOrder`, under fairness `CollectedIsRecorded` |
| `resolution` | 152 texts: each body alone, in each kind of header, and relayed once more; 4 peers (fitting, rejected, unknown, always accepted hint; none), 5 definitions | 304,493 | `StatusIsHonest`, `CountersAgree`, `HintNeverBypasses`, `SteeredBySource`, `OneEnvelope`, `OriginalsSurvive` |
| `key_values` | every text of up to 5 of 8 characters in each format; what conforming senders write of any value of up to 3 of 7 characters and of 4 pairs with aliases and duplicates; what `QRadarTarget` writes of such events | 810,666 | `ReadAsWritten`, `NothingOfTheText`, `TheRightOneWins` |
| `json_fields` | 12,512 documents of up to 3 members, objects in objects one level beyond the limit, keys that come again, spell another's number or path, or are empty | 206,903 | `LeavesAreKept`, `MembersStayMembers` |
| `worker_dies` | the disk may fail | | `docs/DELIVERY.md:72` says the worker never dies silently; an OSError of the spool ends it |
| `message_lost` | up to two SD elements, messages of up to 2 characters | | `docs/research/protocols-syslog-rfc3164-5424-6587.md:18` has any number of elements and the message after them; behind two elements the message is in neither part |
| `split_lines` | octet peer whose first message holds a line feed | | `framing.py:26` fixes the style by the first frame; an incomplete first octet frame is cut as a line, its count in front |
| `stop_drains` | one UDP collector | | `docs/OPERATIONS.md:159` says Ctrl+C drains the queues; delivery is drained before the pipeline stops feeding it |

Why the bounds are enough. `Delivery`: a queue of one fills with the second event, a batch of two
lets one half succeed, one retry gives a first call, a last call and the spool after it, and three
events put one in the queue, one with the worker and one with a submitter or the draining main
thread at the same time; the theorems then lift most properties to every size. `TcpFraming`:
three messages of at most five bytes on the wire and every chunking reach each branch of
`_extract` with the separator, the CR and the count split at every place; the limit of 3 and the
headroom of 3 keep the guard within reach. `Runtime`: two events suffice for one to be turned
away while another is processed, for two in the order of one connection, or for one of each of two connections to be counted in one order and put in the other; a queue of one and a
history of two let both be full, though a history that must forget needs a third event.
`Listener`: three clients
for two places make one be turned away, one come while another's place is being given back, and
one keep its place without a thread; a client that comes back is another client. `KeyValues`: an item
is decided by at most a key character, `=`, a quote, a backslash, a blank and what comes before
or after it; five characters of noise hold two items and three of a value every pair of special
characters with a third around them. Three keys with two aliases give every order of an alias, a duplicate and
a third occurrence. `JsonFields`: a key can come three times, and be met by one that spells its
second; one level below the limit of depth shows what is kept whole.
`Resolution`: nothing but counters goes from one event to the next, so the second event is one of
three short texts (`SecondIsShort`, a TLC constraint on the instance, cuts the others); the texts
are all combinations the parsers tell apart up to one relayed header.

In `delivery_faults` the properties a broken disk or an odd reply does break are not asked:
`VerdictsAreTrue` excepts odd replies by its definition, the others are the violation runs.
`CHECK_DEADLOCK FALSE` stands in every configuration because the system stops: the process ends,
the connection closes, or the bound on events is reached.

### Fairness

`Delivery`: the operating system runs each thread that can run; every blocking call of the code
has a timeout (`get`, `put`, sockets, requests, `join`), so a deliverer's step always comes.
Nobody has to submit, stop or halt. `Runtime`: the threads of collectors and connections, and the pipeline's worker with its
`submit()` calls run (the API's handlers and a listener's accepting thread need not); the delivery worker is not assumed to (a hanging target must not keep the
pipeline from recording), and neither is anybody's stop. `TcpFraming`: the thread runs, and TCP
delivers what was written; timeouts, resets, overflows and the peer's behaviour are never forced.
`Runtime` also runs main through a
replay once its file has no more lines. `Listener`: the accepting thread, `stop` and each connection's
thread run; each of them takes the lock at most twice per connection, so weak fairness lets none wait
for ever. Clients connect and leave as they please, and `recv` need not find anything but its timeout.
`MessagesArrive` and `SubmittedSettles` name the ways out the code has (the connection ends, the
manager is stopped).

## 4. Proofs

Each property below was first checked by TLC on the instance of the component's run. The theorems need nothing but the named assumptions on the constants; what
else one of them supposes stands in its statement.

### The delivery manager (`DeliveryProofs.tla`)

For every set of events and submitters, every kind of target, queue size, batch size and number
of retries, with and without disk faults and odd replies, from `TargetsAssumption` and
`DeliveryAssumption` alone (`Events` finite, submitters distinct from the two deliverers, sizes
positive):

| Theorem | States |
|---|---|
| `TypeCorrect` | `Spec => []TypeOK` |
| `OneHolder` | `Spec => []SingleCustody`: no two threads, nor a thread and the queue, hold an event |
| `TrueVerdicts` | `Spec => []VerdictsAreTrue` |
| `BoundedRetries` | `Spec => []RetryThenSpool` |
| `ExactAttempts` | `Spec => []AttemptsAreExact` |
| `FinalVerdicts` | `Spec => SettledIsFinal`, an action property |
| `StopDelivers` | `Spec => []StopDrains` |
| `ExactMetrics` | `Spec => []MetricsAreExact` |
| `PromiseKept` | `Spec => KeepsPromise`: the manager implements `Custody` |
| `LossNeedsFault` | an event is lost only to a fault of the disk or with the process |

The argument. None of these is inductive: that an event is spooled after exactly
`MaxRetries + 1` calls depends on how far its holder's loop is, and that depends on the events the
holder has and on no other thread having them. The inductive invariant is `Bookkeeping`, the
conjunction of

- `TypeOK`;
- `Hands`: where a thread can be, and where it holds nothing;
- `SingleCustody`: needed everywhere, since a step of one thread must leave alone what another holds;
- `PassCount`: the loop counter is at most `MaxRetries` before the spool and `MaxRetries + 1` in it;
- `ResultsAreHonest`: the result a deliverer has in hand is about its batch, what it says was
  returned went out, and the target took it if it is one that answers (lemmas `SyslogIsHonest`, `ElasticIsHonest`, `SpoolIsHonest` about `Targets`);
- `CallsMatch`: a held event took part in as many calls as its holder's counter says;
- `Unspooled`: an event somebody holds has no fallback line.

`BookkeepingStep` has a lemma per conjunct and in each a case per action. `NewlySettled` and
`HowItSettles` say that a step settles an event in one of three ways only (returned by the
target, spooled, rejected), `StaysSettled` that nothing reverses it; verdicts, attempts and
finality follow. `StopDelivers` adds `WhereEarlyIs`: the events that were there when `stop()` was
called are queued, with a deliverer or settled, and are lost only if a deliverer died. The metrics
add up because a step that counts `n` settles exactly `n` events that were not settled. For the
refinement, each step of the manager is an `Accept`, a `Settle`, a `Lose` or an `End` of
`Custody`, or changes nothing that `Custody` speaks of.

### The listener (`ListenerProofs.tla`)

For every finite set of connections and every positive `max_connections`, whether or not threads
may fail to start, from `ListenerAssumption` alone:

| Theorem | States |
|---|---|
| `ListenerTypeCorrect` | `Spec => []ListenerTypeOK` |
| `PlacesStayExact` | `Spec => []PlacesAreExact` |
| `NobodyTurnedAwayEarly` | `Spec => TurnedAwayOnlyWhenFull`, an action property |
| `StopWaitsForAll` | `Spec => []StopSeesAll` |

The argument. `PlacesAreExact` says nothing of the count while somebody holds the lock, and
`StopSeesAll` nothing before `stop()` has returned, so neither is inductive. The inductive invariant `IInv` is the
conjunction of

- `ListenerTypeOK`, and `Arrivals`: a client that has not connected has no place with the server;
- `CriticalSection`: who holds `_conn_lock`, and that the count it has read is still the count;
- `CountIsExact`: the count is the number of places not yet given back, those whose thread is in
  the critical section included, and is at most `MaxConnections`; from `CriticalSection`, a step
  that writes the count adds or takes exactly the one it moves (`ComesIn`, `GoesOut`, `Stays`);
- `ThreadsAreListed`: the accepting thread is first in `_threads`, and every thread started is
  there but the one it is about to append;
- `JoinsInOrder`: every thread before the index `stop()` is at has ended or outlasted its join.

The accepting thread is first in the list, so by the time `stop()` joins another one the list
grows no more: that is why iterating over it while it is appended to loses no thread.

### The running process (`RuntimeProofs.tla`)

For every set of collectors of each kind and of connections, every set of events, every size of the queues and of the
history, whether it runs or replays, from the assumptions of `Delivery` and `RuntimeAssumption` (among
them that no thread is two collectors', and none has the name of the API's):

| Theorem | States |
|---|---|
| `DeliveryInRuntime` | `RuntimeSpec => Spec`: inside the process the delivery manager does only what `Delivery` lets it do, so all theorems about it hold there |
| `PromiseKeptInRuntime` | `RuntimeSpec => KeepsPromise` |
| `RuntimeTypeCorrect` | `RuntimeSpec => []RuntimeTypeOK` |
| `NoneVanish` | `RuntimeSpec => []NothingVanishes` |
| `OrderedHistory` | `RuntimeSpec => []HistoryInOrder` |
| `EndToEnd` | while the process runs, each event that arrived is on its way, turned away, abandoned or shown, or in the manager's custody, or settled with a true verdict, or lost to a fault of the disk |

The argument. `DeliveryInRuntime` is a refinement without a mapping: `ProcessIsDelivery`,
`ServeIsDelivery`, `ShutdownIsDelivery` and so on show for each action of the process that it is a step of
the manager or leaves its variables alone. The inductive invariant `RuntimeBookkeeping` has the
manager's `Bookkeeping` as its lower half, and

- `UpstreamHands`: a thread holds one event at most, and only where its loop has one in a local;
- `UpstreamApart`: no event is in two places of collectors, queue, pipeline and API;
- `Origins`: an event arrives once, what a collector or the API has in hand came from there, and
  whatever the process has anywhere arrived;
- `NothingVanishes` itself, the sums of the counters included;
- `NoOvertaking`: of two events of one thread (one socket, connection or file) the earlier one is never
  behind the later, in the history, with the pipeline, in the queue or in the thread's hand. Of two
  connections it says nothing: they count in one order and put in the other. `HistoryInOrder` alone is not
  inductive: a step that records must know in which order the queue is.

### Event processing (`ResolutionProofs.tla`)

For every set of texts, of peers and every list of source definitions, from `ResolutionAssumption`
(definitions form a sequence, peers have all anchors):

| Theorem | States |
|---|---|
| `Processing` | `Spec => []ProcessingInv`: at every stage the event is what the stages before made of it |
| `ResolutionTypeCorrect` | `Spec => []ResolutionTypeOK` |
| `HonestStatus` | `Spec => []StatusIsHonest` |
| `CountersAreTheCensus` | `Spec => []CountersAgree` |
| `HintsDoNotBypass` | `Spec => []HintNeverBypasses` |
| `SteeredByFirstMatch` | `Spec => []SteeredBySource` |
| `AtMostOneEnvelope` | `Spec => []OneEnvelope` |
| `NoOriginalLost` | `Spec => []OriginalsSurvive` |

The argument. All six properties speak of finished events, so none is inductive. `ProcessingInv`
adds `StageByStage` (what each stage leaves: the route from `RoutedRight`, one result after
`EnvelopeRead`, one or two after `ReadRight`, the status `reconcile` calls for, the identity after
`identify`), `CountersKept` (each counter is the census of the finished events, plus the event at
hand if its stage has counted it already) and `NoneUncounted`. The properties are then what the last
stage hands over. The lemmas before it are about routing: what `resolve_with_hint` returns
accepts the text, or is the fallback; what `merge_parse_result` keeps. `OneLayer` and `TwoLayers` are the
ones `NoOriginalLost` rests on: the names two parsers keep are apart (`NamesApart`) unless both are
syslog parsers, and then the merge replaces what `Replaceable` names and nothing else.

### A connection (`TcpFramingProofs.tla`)

For every set of messages over bytes, of any length, both styles, every limit, prefix length,
headroom and size of a chunk, and every way TCP cuts the stream, from `FramingAssumption`:

| Theorem | States |
|---|---|
| `FramingTypeCorrect` | `Spec => []TypeOK` |
| `MemoryBounded` | `Spec => []HoldsLittle` |
| `MessagesInOrder` | `Spec => KeepsOrder` if `AnyFirst` is false: the connection implements `MessageStream` |
| `FramesAccounted` | each frame is counted as received, queued or turned away, and each error ending once |
| `NoSilentLoss` | `Spec => []LossIsCounted` if `AnyFirst` is false |

`AnyFirst` false means that the first message of the peer shows its style. Without that the two
theorems are false: the run `split_lines` has the counterexample.

The argument. `HoldsLittle` is about each moment: within the guard, or up to one `recv` beyond it
between the append and the end of the connection. A step of `feed` relies on what the steps
before left: `MemoryInv` adds that a chunk is asked for only when the frames of the last one are all
emitted, and that what is counted is finitely many bytes. For the order, `CuttingInv` says
what the bytes in flight are: the wrapped messages that are not yet cut, one after the other
(`Carries`, with `Marks` where each ends), and that the frames waiting are the messages in
between. Its proof is about the front of the buffer: an incomplete message is never cut (a prefix of
a wrapped message shows no complete count, or a count and too few bytes, or no line feed), a
complete one is cut at its mark, and the style that `_extract` settles on is the peer's. The value of
a count stays opaque: `OctetCountRead` and `OctetFrameIsMessage` need only that the digits a peer writes
have the value of the message's length, so no induction over digits is needed.

### The key=value parsers (`KeyValuesProofs.tla`)

For every text over the alphabet, of any length, every alphabet, map of aliases, numeric fields and
delimiter, from `TextsAssumption` and `KeyValuesAssumption` (the alphabet's classes are disjoint, lists,
events and noise are made of its characters, the special keys differ):

| Theorem | States |
|---|---|
| `KeyValuesTypeCorrect` | `Spec => []KeyValuesTypeOK`: the tokenizers advance and no two pairs get one name |
| `NothingIsDropped` | `Spec => []NothingOfTheText` |
| `RightOneWins` | `Spec => []TheRightOneWins` |
| `WhatIsWrittenIsRead` | `Spec => []ReadAsWritten`: any number of pairs, with values of any characters and length, are read back as they were written, and what `serialize_leef` writes is one line |

The argument for the first three. They are about what the whole run leaves, so `ParsingInv` says what
each step has left: `Numbered` (a pair's number is how often its key has come, because `dup_count` is
how often each key came; hence names are unique, `NamesDiffer`, and no original is overwritten),
`Covered` (up to the position each character is in one item or is a separator) and `Mapped`
(originals and fields are those of the pairs mapped so far, the last candidate winning).
`ItemAdvances` is the fact about the tokenizers it rests on: each of the three ways to cut an item
ends after it starts, and skips only separators.

`WhatIsWrittenIsRead` goes the other way, from the sender's list to the tokenizer. Its inductive
invariant is `Follows`: the text is what a conforming sender makes of the list (`Meant`), the pairs
found so far are the first ones of the list (`ReadSoFar`), and, for some list of the places where the
written pairs end (`LaidOut`), the tokenizer is at the next one (`AtPlace`). It needs three groups of
lemmas.

- Values. `ValueIsRead`: what a sender makes of a value is decoded to it. Escapes are read from
  the left (`Escaped`), so each escaped character is a piece of the written value and a character is
  escaped in a piece as it is in the whole (`EscapesInPieces`). For key=value, `_unquote` is two
  replacements one after the other; `QuotesAreRead` and `EscapesAreHalved` show that the first does
  not spoil the second.
- The layout. `WrittenIsLaidOut`: the text of a list has its pairs one after the other, a separator
  between two, whatever stands in the values.
- Items. `OneItem`: at a pair's place the tokenizer cuts just that pair. In LEEF no value has the
  delimiter (`LeefItem`, `NoPunctuation`); in CEF the blank before the next key is the first boundary, as
  each `=` in a value is escaped (`NoBoundaryInside`, `CefItem`); in key=value the quote at the end is
  the first that closes (`ClosingQuote`, `KvItem`). `KeyEndStands` then finds the key.

The hypotheses are those of `Sends`, what the formats demand of a sender: keys of key characters, no
CEF value that ends in a blank, no blank at the end of a text that may be stripped; for QRadar,
`OneLine`. Each is needed: the run had a counterexample without it. Inductions over lists and texts
are made by looking at the least exception, since the library's induction theorems cannot be used;
the facts about glued pieces (`GluedSingles`, `EveryPlaceInAPiece`, `PieceEnds`: where each piece
ends) are in `Lemmas`.

### The JSON parser (`JsonFieldsProofs.tla`)

For every document, of any size and depth, every set of pieces, every limit of depth and every map of
fields, from `JsonAssumption` (documents are trees, the limit is positive, the keys of the map have no
`#` and no `.`, and no field's name begins with `json` as the unmapped ones do):

| Theorem | States |
|---|---|
| `ShapeHolds` | `Spec => []Shape`, the inductive invariant |
| `MappingHolds` | `Spec => []Mapping`: the layers hold what the loop has passed, the last one winning |
| `LeavesAreKeptAlways` | `Spec => []LeavesAreKept` |
| `FieldsFromTheTop` | `Spec => []MembersStayMembers` |

The argument. Both properties are about what three loops leave one after the other, so each loop has
its part of the invariant. `Shape` has for the hook `Numbers`: in an object without `#` in its
keys the dictionary has the first members, each under the number that says how often its key has
come, and `dup` knows that number (`TurnIsExact`); for `_flatten` `Calling`: the calls are nested,
one level of the document each, at most `MaxDepth + 1`; and that the flat dictionary has one entry for
a key, and only leaves. `Mapping` is the loop of `_parse()`.

- `LeavesAreKeptAlways` adds `PathNames`: a call's prefix and an entry's key are what the path spells,
  and every leaf is in the flat dictionary or a call has still to come to it (`Pending`). The step
  needs that two leaves never spell one name: `NamesDiffer` reads a name from its end, where the last
  dot is (`LastDot`, `DottedDiffers`), since a key without punctuation has neither dot nor `#` of its
  own and a numbered one differs from every other (`NumberedDiffers`).
- `FieldsFromTheTop` is for documents whose nested keys may be anything. `TopNames` says that an
  entry is either a member of the top level under its number, or has a dot before any `#`
  (`Nested`); that the members whose keys have no dot are all kept once passed; and that they stand
  in the order of the text (`AssignInOrder`: such an entry is always new, and comes last). Neither
  a key with a dot nor its base is in the map (`DotInBase`), so the members that give a normalized
  field its value are those of the property (`SourceName`, `NameSource`).

### Not proved

Only model-checked:

- liveness, which is out of the prover's reach: `SubmittedSettles`, `WorkerExits`, `MessagesArrive`,
  `PlaceComesBack`, `CollectedIsRecorded`;
- `StructuredData`: its run is a disagreement (`message_lost`), there is nothing to prove.

All safety invariants and action properties of the passing runs are theorems.

## 5. Disagreements seen without a run

One call or one line shows them, so no run was made. Of delivery and the running process:

- `stop()` waits 15 s for the worker and then drains only the queue; the batch in the worker's locals
  (its backoffs alone sum to 31 s by default) is lost when the process ends, since the worker is
  a daemon thread, though `docs/DELIVERY.md:8` says that nothing is silently discarded. `lost` in
  `Delivery` has these events, and `KeepsPromise` says that nothing else is lost.
- A syslog or QRadar event is stamped DELIVERED when the kernel took its bytes (`delivery.py:157`). A
  lost datagram, and UDP is the default (`runtime.py:79`), or a TCP connection that breaks behind the
  `sendall`, is stamped so with nothing taken, against `docs/DELIVERY.md:6`, "never claim delivered that
  did not happen". `VerdictsAreTrue` asks of these targets only that a DELIVERED event went out.
- `docs/DELIVERY.md:84` gives `max_delivery_retries` (5) as the passes before the spool fallback, and
  `limits.py:26` has it "before routing to spool"; `_deliver_batch` makes that many after the first
  (`delivery.py:404`), so 6. `RetryThenSpool` states the number of the code, `MaxRetries + 1`.
- When an adapter raises in the middle of a batch, `_safe_deliver` stamps the whole batch FAILED, the
  events sent and stamped DELIVERED included, and they are sent again; `docs/DELIVERY.md:20` has
  DELIVERED final. `SettledIsFinal` is about the verdict the manager gives; `RetryThenSpool` says that an
  event goes out twice nowhere else.
- An event that a `_bulk` reply does not list has an empty result without an error, and is stamped
  DELIVERED (`delivery.py:307`), though `docs/DELIVERY.md:6` says never to claim a delivery that did
  not happen. `VerdictsAreTrue` excepts such replies (`OddReplies`).
- The guard is tested after the chunk is in the buffer, and the buffer stays until the thread has ended:
  it exceeds the maximum by up to one `recv` of 65536 bytes, though the comment at `framing.py:41`
  says it may not exceed it by more than the headroom. `HoldsLittle` has both bounds.
- The guard measures the whole buffer before frames are taken out of it, so a burst of
  complete messages, all within `max_message_bytes`, can end the connection; `framing.py:44` says
  "exceeded before frame completion" and `docs/OPERATIONS.md:76` gives the limit as one of a frame.
- `POST /api/parse` hands its event to the sink, and so to delivery, though
  `docs/OPERATIONS.md:198` says "without delivering it". `ApiRecord` models the code.
- `docs/OPERATIONS.md:170` of `replay`: blank-line separated messages are not read as such,
  `--summary` prints a line per event and no counts, and `--api` builds the API and never starts it.
  `docs/OPERATIONS.md:214` has the spool replayed by it, but a replay builds no delivery
  (`PipelineRecordOnly`). One line above the limit, or an overflow of the queue, ends the replay without
  printing (`ReplayRefuses`, `ReplayFails`); a longer one prints only the last 1000 events.
- `TcpCollector._threads` grows by one for each connection, though `collectors.py:5` says all is
  bounded. `Listener` has the list as it is: `StopSeesAll` needs it.
- FAILED events are in no counter: `Metrics.event_parse_failed` is never called, though
  `docs/OPERATIONS.md:195` lists "failed". `CountersAgree` says so.
- `max_spool_bytes` is read by nothing, `ResourceLimits.validate()` called by nothing (the models
  assume the limits it asks for), and `/api/events?limit=0` returns everything.

Of sources and routing:

- An RFC 5424 appname, and a CEF header inside syslog, leave the source UNKNOWN; `source_id.py:8`
  says INFERRED.
- `ARCHITECTURE.md:165` excludes syslog as an inner format; `registry.py:103` falls back to it when
  syslog is all detection finds, and then hostname, PRI and timestamp of the outer header are
  replaced, though `normalize.py:8` says originals are always preserved. `OriginalsSurvive`
  says that nothing else is replaced, and nothing in any other chain. The normalized `@timestamp` goes
  its own way there: if the inner RFC 5424 timestamp is nil it stays the relay's, while
  `original.timestamp` becomes `-`.
- After an RFC 3164 header with a host and no tag, the tag rule takes the `%ASA-` token or the first JSON
  key (`TagEats`), so `README.md:79`'s chain `rfc3164+cisco_asa` does not come about there.
- A hint that names a syslog parser never falls back: these parsers have no signature.

Of single fields:

- A repeated SD parameter, and a repeated SD element, replaces the earlier one (`rfc5424.py:190`,
  `rfc5424.py:193`); `docs/FORMATS.md:34` says it is kept as `k#2`.
- `serialize_leef` writes no `|` after the event id, which `docs/research/formats-cef-leef.md:28`
  has; this program's own LEEF parser then reads all attributes as part of the event id. `KeyValues` reads
  the attributes as QRadar does, after the first tab. `src` and `dst` are written as they are, though
  `docs/DELIVERY.md:59` says values are escaped; `ReadAsWritten` supposes that they have no tab and
  no line feed (`OneLine`).
- `docs/FORMATS.md:112` says of duplicates of a mapped key that the normalized layer keeps both
  visible: the last one wins, and an invalid number takes a good one's place (`TheRightOneWins`).
  `docs/FORMATS.md:127` has FortiGate's vendor layer verbatim, quoting included: it has the unquoted value.
- A CEF or LEEF key spelled `header` replaces the header in the originals, and a key spelled
  `unpaired_0` shares its name with the first item that is no pair (`NothingOfTheText` says when).
- `key#2` for a duplicate JSON key can replace a key of that name, though `json_parser.py:3` says
  duplicates are preserved; an empty key, or keys with dots, can make two paths one; an empty
  object leaves no trace outside the raw text; a repeated object's `user#2.id` is normalized as `user`;
  a list under `message` becomes the normalized message (`LeavesAreKept` and `MembersStayMembers` say
  for which documents none of this happens).

## 6. Not modelled

Configuration and command-line printing (sequential, no state), the read-only views of the API, and
formatting of events for Elasticsearch, Wazuh and the spool. Of the parsers: the header fields,
timestamps and their year, SD elements and parameters once the text is split, CSV columns by position and the
ASA message table, where each value comes from one regular expression or one lookup and a test of
each row says as much as a model. The parse-time budget's note, and what a half-written line looks like
in follow mode. Whether a replay prints its last event is a question of real time.
Termination of the drain is not claimed: with finitely many events it would hold by the bound,
while the code's drain ends only when it finds the queue empty. `PROJECT.json` gives the reason for
each part and each hazard no property covers.

## 7. Plan

Order of the modules, the most important behaviour first. Done: `Targets` and `Delivery` with
`Custody`; `TcpFraming` with `MessageStream`; `Runtime` (which composes the collectors, the
pipeline, the API, replay and `Delivery`); `Resolution`; `Listener`; `Texts`, `KeyValues` and
`JsonFields`; `StructuredData`; `DeliveryProofs`; `ListenerProofs`; `RuntimeProofs`;
`ResolutionProofs`; `TcpFramingProofs`; `KeyValuesProofs`; `JsonFieldsProofs`.

Left: a `Runtime` instance with three events, so that the history forgets, once it fits the time of
a run.
