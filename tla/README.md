# A verification development for wrest

wrest is an HTTP client for Windows with reqwest's API, built on WinHTTP in
asynchronous mode. The crate owns no thread: WinHTTP calls back on pool threads
of its own, timers fire on the Win32 thread pool, and the caller's executor
polls the futures. Everything that is hard here happens where those three meet:
who keeps a buffer or a state alive, which future an event belongs to, when a
drop may return, and what a deadline, a dropped future or a redirect does to a
request in the middle.

This directory holds TLA+ models of those parts, TLC runs that check them, and
TLAPS proofs about most of them. `PROJECT.json` lists, for each definition, the lines of
source it translates, for each property a mutation of the model that breaks it,
and for each hazard the property that guards it.

## 1. The system

| part | source | state | operations |
|---|---|---|---|
| request handle | `src/winhttp.rs` `WinHttpRequestHandle`, `RequestState`, `winhttp_callback` | `close_state` (`closed`, `active_callbacks`), `callback_abort`, references to `Arc<RequestState>`, one of them parked in WinHTTP's `dwContext` | install the context, callback entry and exit, `HANDLE_CLOSING`, `abort_from_callback`, `drop` |
| completion signal | `src/callback.rs` `CompletionSignal`, `await_win32` | a slot for a oneshot sender | `listen`, `signal`, the future resolved or dropped |
| exchange | `execute_request`, `write_data`, `read_chunk`, `Response::chunk` | the send and read buffers, the write offset, the certificate retry | send, write the body in one of three ways, receive, retry once, read |
| redirect stripping | `STATUS_REDIRECT` in `winhttp_callback_body` | `current_origin` | strip on leaving the origin, abort |
| deadline | `src/timer.rs` `Delay`, `src/threadpool.rs` | a pool timer, its state and context | create, poll, drop |
| retry loop | `Client::execute` in `src/client.rs` | remaining retries, the kept body, the deadline | attempt, classify, retry, leave |
| retry budget | `mod budget` in `src/retry.rs` | a ring of balances, a writer, the slot's start | `deposit`, `withdraw`, `advance` |
| client builder, sessions | `src/client.rs`, `WinHttpSession::open` | the builder's fields, the session handle and its options | setters, `build`, one option after another |
| proxies | `src/proxy.rs` | urls, credentials and `NO_PROXY` patterns of a client | `from_env`, `apply_to`, `resolve`, the override of a request |
| request builder | `src/request.rs` | url or deferred error, headers, body | the setters, `build`, `from_parts`, the header lines of a send |
| decoding | `src/encoding.rs`, `Response::text_with_charset` | the parts of the body | collect, choose a decoder, decode |
| system text | `src/abi/encoding.rs`, `src/abi/idna.rs`, `src/abi/mod.rs` | two `OnceLock` tables over `icu.dll`, a converter per call | load, resolve, convert, fall back on NLS |
| response head | `query_*` and `parse_*` in `src/winhttp.rs`, the two-call queries of `src/abi/winhttp.rs` | a buffer | status, flags, version, headers, final URL |
| body, response | `src/body.rs`, `src/response.rs` | who holds the response, its keep-alive of the client | `chunk`, collect, stream, hand on |
| URLs | `src/url.rs` | the fields, and two texts made from them | parse, join, `set_query`, take the userinfo, through `http::Uri` |
| errors, retry policy | `src/error.rs`, `callback_error_to_error`, `retry::Builder` | what callbacks left, a chain of sources | build an error, ask about it, classify an attempt |
| parity probe | `tools/encoding-parity` | options, corpora, scores | plan, generate, measure |
| redaction, tracing, runtime, crate root | the other files | none | formatting |

How they interact: `Client::execute` loops over `execute_inner`, which races
`execute_request` against a `Delay`. `execute_request` starts each WinHTTP
operation through `await_win32`, which installs a listener in the request's
`CompletionSignal` before it starts the operation; the status callback signals
it. The future may be dropped at each of those awaits, by the race or by the
caller. Dropping it drops the `WinHttpRequestHandle`, which closes the handle
and blocks until the callbacks are gone, so that buffers in `RequestState` may
be freed. When the response is there the handle moves into a `Response`, whose
`chunk()` is one more operation of the same kind. When `execute` is left it
deposits in the client's budget; a retry withdraws from it.

What makes each part correct:

* *Handle*: after a drop no callback runs, and none will; a callback never works
  on a freed state; a drop returns; nothing leaks.
* *Signal and exchange*: each await gets the one answer that is its own; a
  buffer lent to WinHTTP stays; partial writes send every byte once and in
  order; a chunked body ends with exactly one terminator; an abort surfaces with
  its reason; an attempt ends.
* *Redirects*: a sensitive header never reaches a foreign origin, a request at
  home loses none.
* *Deadline*: a timer callback finds its state; a timeout is real; the race ends.
* *Retries*: nothing is sent without its body or after the deadline; each execute
  deposits once; retries stay within the configured load.
* *Client and proxies*: a client comes with a whole session or not at all; each
  request takes the proxy its caller and the environment name, and credentials
  go only to the proxy they were given for; a timeout that was asked for is finite.
* *Requests*: what is built is what the calls said, or the error of one of them,
  defaults and injected values included, also after a round trip.
* *Text*: the decoder the documentation names; UTF-16 as WHATWG has it; a library
  that is loaded as long as somebody calls into it; NLS only where ICU is not to be had.
* *URLs*: the texts and the fields never part; join is RFC 3986's; userinfo stays
  with its origin.
* *Errors and policy*: an error says what this attempt failed of, and of no earlier
  one; an attempt is retried exactly if the policy's calls ask for it.
* *Head and body*: nothing WinHTTP received is cut or invented, no partial body passes
  for a whole one, and no chunk is lost but by a read the caller gave up.
* *Probe*: what it measures is what the crate does, and each input counts once.

## 2. The modules

Each action is a stretch of code between two points where something else may
run: a critical section of a mutex, a call into WinHTTP or the pool, or a poll
between two awaits. Definitions named `Bug...` are faulty variants that serve
only as mutations.

| module | models | composed with |
|---|---|---|
| `RequestHandle` | the life of one handle: owner, any number of pool threads, WinHTTP's view of the handle | implements `CallbackDrain` |
| `CallbackDrain` | the contract: callbacks come and go, the last shuts the gate, drop returns when all have left | - |
| `CompletionSignal` | the one-shot bridge as operators over four variables | instantiated by `Exchange` and `Deadline` |
| `Exchange` | one attempt and its response body, one program counter per await | `CompletionSignal`; relies on `CallbackDrain` in `Drained` |
| `RedirectStrip` | the redirects of one request and its callback, hop by hop | - |
| `Deadline` | one race of some work against a `Delay` | `CompletionSignal` |
| `RetryBudget` | the ring of `mod budget` against a clock | extended by `RetryLoop` |
| `RetryLoop` | concurrent requests of one client | extends `RetryBudget` |
| `ClientSetup` | `ClientBuilder`, the opening of its session, the proxy of a request | - |
| `RequestCompose` | `RequestBuilder` up to the header lines of the send | - |
| `TextDecode` | the text of a response | - |
| `SystemText` | threads that convert by the system's tables, from before `icu.dll` is loaded | - |
| `UrlAlgebra` | one URL and any sequence of operations on it | - |
| `Verdict` | an attempt's failure, the `Error` it becomes, and the retry policy's answer | - |
| `BodyUse` | the reads of one response, by whoever holds it | - |
| `ResponseHead` | the queries after `HEADERS_AVAILABLE` | - |
| `ParityProbe` | a run of the `encoding-parity` tool for one route | takes `BomOf` and the routes of `TextDecode` |
| `Client` | the nine from `ClientSetup` on, one of them in a behaviour | extends `ClientSetup`, `UrlAlgebra` and `TextDecode`, instantiates the others |
| `Option` | Rust's `None`, where modules share it | extended by `ClientSetup`, `UrlAlgebra`, `TextDecode` |
| `MCParts` | `RequestHandle`, `RedirectStrip` and `RetryBudget` for TLC, one of them in a behaviour | extends the three |
| the other `MC...` | the values of the constants for TLC | extend the module they name |
| `..._proofs` | theorems and proofs | extend the module they name; `RetryLoop_proofs` has `RetryBudget`'s too, `RequestHandle_proofs` has `RedirectStrip`'s, `ClientParts_proofs` has `ClientSetup`'s, `UrlAlgebra`'s and `TextDecode`'s, and `Client_proofs` those of `Verdict` and `ResponseHead` |

Correspondence, where it is not one to one:

* **`RequestHandle`**. `owner` is the thread in `drop`: `closing` is the gap
  between reading `callback_abort` and `WinHttpCloseHandle`; `checking` and
  `asleep` are the loop of `wait_closed_and_idle`; `drained` and `undrained` are
  the two ways out. `pc[w]` follows a callback: `entered` (called, not counted
  yet), `counted`, `flagged` (abort noted, handle not closed yet), `leaving`; and
  for `HANDLE_CLOSING` `final`, `cloned`, `released`, `marked`. `holders` are the strong
  references: the owner's, the parked one and the clone that `HANDLE_CLOSING` takes.
* **`CompletionSignal`**. `signal()` takes the sender under the lock and sends
  after it, so `held` has the events on their way. A oneshot whose receiver was
  dropped is "dead".
* **`Exchange`**. `at` names the await. `ops` is what WinHTTP works on, with the
  buffer it was lent; `wire` is what it took, unit by unit. The 4 MiB pieces
  of a large body, the frames of a stream and the terminator are `frames`, of a few
  units each. A certificate challenge may come with the completion of a send or a receive or as its
  synchronous refusal (`Refused`), and both go to `on_error`, as in the code; redirects and aborts may
  come during either (`Requesting`). Header options before the send and header queries after it are
  one step that may fail. `Drained` is the drop of the handle.
* **`RedirectStrip`**. `current` is where WinHTTP is, `tracked` is
  `current_origin`. Each header is removed in a step of its own, in any order, since
  the owner may close the handle in between.
* **`Deadline`**. A poll of `select` is two steps: `WorkPending` or `TakeAnswer`,
  then `PollDelay`. The drop of the `Delay` is five: stop, wait, close, release the
  context, drop the fields.
* **`RetryBudget`**. `deposit` and `withdraw` hold the mutex throughout and read the
  clock inside, so each is one step. Time is in ticks; `since` stops counting
  when the whole ring would be cleared. `log` is a history of calls with ages, the
  ledger the ring is compared with.
* **`RetryLoop`**. An attempt is its outcome. The classifier is the set
  `Retryable`, the scope the set `InScope`. There is no clock: everything
  happens in one slot of the budget, where its arithmetic is exact; what time does is
  `RetryBudget`'s business.
* **`ClientSetup`**. A host is its labels, so that a suffix match is one of
  sequences. `Setter` is every setter that stores a value, over the fields of
  `Settings`; `NoOp` the many that exist for reqwest's sake. `config` holds url and credentials as one record for each scheme, as
  `apply_to` sets them together. `OpenSession` opens the handle, `SetOption` and
  its two failures walk down `Options` in the order of `open`; best-effort
  options may be skipped, any other failure drops the handle. `Taken` is what
  WinHTTP does with a request that overrides nothing: the session's own proxy, whichever
  scheme's it is, or detection. `RoutesByHistory` leaves open which proxy that is, and only asks that such a
  request is not sent direct and has nobody's credentials; that it should be its own scheme's is
  `OnlyItsTraffic`, which does not hold (finding 6). `calls` is a history, against which the routes, the options of the
  session and the timeouts are judged.
* **`RequestCompose`**. The value of a header, body or query is the number of
  the call that wrote it. A deferred error takes the place of the URL, as in the code.
  `from_parts`, `try_clone` and the way through `http::Request` start a new
  history from the request they take apart. Form data are one of six shapes of JSON value; whether
  an array may hold a null is `ArrayNulls`, since a null there is finding 7. A conversion of an `http::Request`
  may fail, as the URL or the Uri may not parse.
* **`TextDecode`**. `Codepage` and the three sets are the tables of `encoding.rs`, one
  label for an encoding. A decoder that is not written in Rust is known by name
  and the bytes it is handed; the property says by a table of its own which one that must be (`Decides`, `Decoder`), and that it is
  handed every byte but a UTF-8 mark. The other side of the comparison is the WHATWG decoder for
  UTF-16, written as the state machine of the standard and fed byte by byte: `reader` has
  its state after the bytes read so far, for each byte order.
* **`SystemText`**. A thread's `pc` names the call it is in. `dll.refs` counts the
  references to the library; a text is a number of units, and `answer` keeps how many there
  were and how many came out. `LibraryHeld` is what `load_icu_exports` relies on, `ConvertedSoundly`
  what its callers do.
* **`UrlAlgebra`**. A URL text is a record of its parts, since the splitting at
  delimiters is the `iri-string` crate's; the characters of a part are a few
  symbols (`ue` needs encoding and IDNA, `%2F` decodes to a delimiter, `%zz` is an error); a host is one of four kinds,
  IPvFuture among them.
  `written` is a history: which userinfo was written for which origin.
* **`Verdict`**. `state` is what `RequestState` holds of TLS flags and an abort, which callbacks write
  as they come (`TlsNotice`, `AbortNotice`) until the attempt ends; the next attempt has a new one
  (`NextState`). What is judged is not `state` but `heard`, a history of what callbacks told of this
  attempt. A chain of sources is a sequence of links as `io::Error` and
  `ContextError` show them, so that what hides behind a kind is hidden here too. `said`, `heard` and
  `cause` are histories. `uri` is whether `ReqRep::new` can make an `http::Uri` of the request's URL: if not, no
  closure is asked.
* **`BodyUse`**. `holder` is the value that owns the response: itself, a collecting
  future, a stream or the body of another request. `Exchange` has one read in all its
  steps; here each is begun, answered, given up or timed out as a whole. A read is given up with
  its holder (`DropHolder`), or alone (`GiveUp`: the future is dropped, the `Response` kept): then it stays with
  WinHTTP (`adrift`), which answers in order. Its chunk comes while nobody listens (`NobodyIsTold`) and is `lost`,
  or the next read is told its length over a buffer of its own (`"torn"`).
* **`ResponseHead`**. One step for each query, two for those that ask for a size
  first; the block of headers is parsed a line a step. `wire` is what WinHTTP received; a buffer keeps the zeros it was made with.
  `head.flags` and `head.text` are what the queries for the version came to, which may be nothing: then the code
  says HTTP/1.1, and so `VersionAsReported` ties each other version to a report of it and not to `wire`.
* **`ParityProbe`**. `PlanCase` is `run` up to the corpora, which are sets of byte
  strings built as the code builds them (`Cross` for its nested `flat_map`s), over
  `Values` in place of all 256 bytes. A seeded stream is every choice of its first draws.
  What the rows of a group and the converters come to is any outcome.
* **`Client`**. The nine modules share no variable, so a behaviour picks one of
  them (`part`) and leaves the others' variables at `None`: one run, no product.

## 3. Runs

| run | what it checks | bounds |
|---|---|---|
| `parts`, the handle | type, `DrainedIsQuiescent`, `CallbackStateLive`, `NoLostWakeup`, refinement of `CallbackDrain` (`KeepsDrainContract`), `DropEnds` | three pool threads: one that aborts, one in progress, `HANDLE_CLOSING` |
| `parts`, the redirects | type (`StripTypeOK`), `SecretsStayHome`, `HeadersKeptAtHome`, `OriginTracked`, `AbortStopsHops` | three origins (home, foreign, another foreign), three of the six sensitive headers; hops unbounded |
| `parts`, the budget | `LedgerExact` (with the type), `ExtraLoad` | a ring of 4 slots of 2 ticks, a retry costs two deposits, at most 4 calls in the window (`MaxLog`): the ring wraps and is passed whole |
| `handle_drop` | `DropDrains` is **violated** (finding 1) | the handle, three pool threads |
| `exchange` | type, `BuffersSurvive`, `BodySentWhole`, `OneAnswer`, `OperationsEnd` | six kinds of request; pieces of two units; frames of up to three units, so a write can be short, whole or long |
| `exchange_reread` | `BuffersSurvive` is **violated** (finding 2) | a GET without a body, a caller that reads on |
| `deadline` | type, `TimerStateLive`, `NoReentry`, `NoSpuriousTimeout`, `RaceEnds` | none needed: one timer |
| `budget_load` | `ExtraLoad` is **violated** (finding 3) | a fraction of 0.6, 6 calls |
| `retry` | type, `NoHollowAttempt`, `NoRetryStorm` (with the books of the budget), `DeadlineCoversRetries`, `ExecuteEnds` | three concurrent requests, one for each kind of body, two retries each, a baseline of one |
| `client` | type, and of its nine parts `SetupAsAsked`, `RequestAsCalled`, `TextAsDocumented`, `UrlAsWritten` and `UserinfoStays`, `FailuresExplained` and `RetriedAsAsked`, `HeadAsReceived`, `BodyDelivered`, `SystemTextSound` (`LibraryHeld` and `ConvertedSoundly`), `ProbeSound` | see below |
| `client_no_proxy` | `NoProxyDetected` is **violated** (finding 4) | part `setup` |
| `client_headers` | `RepeatedHeadersSent` is **violated** (finding 5) | part `request` |
| `client_other_scheme` | `OtherTrafficSpared` is **violated** (finding 6) | part `setup` |
| `client_form_nulls` | `NullsSkipped` is **violated** (finding 7) | part `request`, arrays with nulls |

Bounds of `client`, part by part:

* `setup`: three builder calls about proxies (`MaxCalls`: the environment is
  overridden, that again, and once more for another scheme), or two about other
  settings (`MaxSettings`: each after each other), or one of each (`Explored`); four
  environments, four hosts (a name, one under it, one that only ends alike, one with
  a dot in the pattern), proxies with and without credentials. Timeouts of zero,
  above a millisecond and beyond the largest, at three nanoseconds to the millisecond
  (`PerMs`) and a largest value of 20 (`MaxMs`); redirect limits below and above a
  largest DWORD of 40 (`MaxU32`): rounding and saturation only depend on which of these
  intervals a number is in.
* `request`: two calls between builds and two builds (`MaxWrites`, `MaxBuilds`): one call
  of each kind before or after any other, and a round trip.
* `text`: five bytes (`MaxBody`): a byte order mark, a high surrogate and an odd
  byte, or two units and an odd byte. A body is read byte by byte from nothing; `Interesting`
  keeps to the openings, marks whole and cut short among them, and to bodies that may be UTF-16.
* `url`: two operations (`MaxSteps`) on each of the texts: a join after a join, a query
  set on what was joined. The texts vary either in scheme, host and port or in
  userinfo, path and query, since no code relates the two halves.
* `verdict`: two calls of `retry::Builder` and notices of callbacks together (`MaxSaid`: two notices of an
  attempt, the later over the earlier, or one under a policy that one call made); Win32 codes, one for each way
  an error is classified or hidden, and the four of client certificates.
* `body`: two chunks and four reads (`MaxChunks`, `MaxReads`): data, data, the end, and after it; or one given
  up, the one after it torn, and the end.
* `system`: two threads, on the same table or on both; sizes at and around `i32::MAX` (`MaxI32`).
* `head`: blocks of up to three lines, two of the same name with another between them.
* `probe`: 16 of the 256 bytes (`Values`: each end of each range the grids use or one
  next to it, and the bytes of the byte order marks), three leads and two digits for
  GB's 126 and 10, one or two draws of a stream, two rows of a group (`MaxRows`: one of each kind, or
  two of one), measured for the routes with and without a codepage (`Chosen`, `Explored`). All 34
  routes are planned.

Bounds named in modules: `MaxLog` caps the calls `RetryBudget` remembers at a
time. `RetryLoop` calls `Deposit` and `Withdraw` directly, its own
`MaxRetries` bounds them. `active` of `RequestHandle` is bounded by the number
of threads (proved: `CountExact`). Deadlock is checked in every run; `Done` steps mark
where a system is over.

`LedgerExact` says how long a deposit counts: at least `(Slots div 2)` slots, at most
`Slots + 1`. `Budget::advance` moves its index one past the slots that elapsed and restarts the
slot at `now`, so deposits made a little more than a slot apart are cleared after about
half the ttl, where the doc of `Budget::new` says `ttl` is "how long a single deposit remains valid".

### Fairness, and what is assumed of the environment

* The executor polls a future that was woken, a stream body yields (`WF(Run)`,
  `WF(Task)`, `WF(Step(r))`). Nobody is obliged to drop a future, read on, or
  let a deadline pass. In `Deadline` time passes while a timer is armed (`WF(Elapse)`).
* A callback that has begun keeps running, and so does a drop.
* WinHTTP completes what it accepted (`WF(Complete)`), cancels what is pending on
  a closed handle (`Settle`), then delivers `HANDLE_CLOSING` once. The pool
  runs the callback of a timer that fired.
* `DispatchFinal` assumes that WinHTTP does not deliver `HANDLE_CLOSING` while
  another thread is between WinHTTP's call and `enter_callback`. The crate
  counts a callback only once inside, so it has to rely on this: without it no
  drop could be safe. WinHTTP's documentation ("the last callback of the handle")
  supports it; the model names it rather than hides it.
* A redirect never goes from https to http, and WinHTTP's own limit of hops is left
  out (any number is allowed).
* `RequestHandle` runs the owner on a thread of its own. A waker that polls
  inline, in the callback, would make the drop wait for itself; the crate
  excludes that with debug assertions.

## 4. Proofs

All are for every value of the constants, from the assumptions the modules name:
`WorkersFinite` and `CanAbortBoolean`; `HomeOK`; `BoundsOK`, `FlagsOK` and `RequestsOK` of
`Exchange` (a request has one of the four kinds of body, a large one has a length);
`LoadOK` and `SlotsOK` of the budget, `RequestsOK` and `PolicyOK` of the loop (amounts, ring and
policy are what `retry::Builder` can be given); `ScaleOK` and `ProxiesOK` of `ClientSetup` (units of
time are positive, a proxy is a URL with or without credentials). A module that `Client` instantiates
has its assumptions as an operator, `ConstantsOK`, and `UrlAlgebra` has `UrlConstantsOK`: the texts
are as RFC 3986 splits them (a path after an authority is empty or rooted, `None` is no text), codes,
flags and blocks are of the kinds the code tells apart. `TextDecode` has `TextConstantsOK`: a default
is a label, `Unknown` is none of WHATWG's, and `None` is neither a label nor a number. `Client` assumes them all (`PartsOK`). TLC
evaluates each assumption on the instances.

* **`RequestHandle_proofs`**. `IInv` adds to the type invariant: `CountExact`
  (`active_callbacks` is the number of counted callbacks, hence a
  lemma about cardinalities for each kind of move), `FinalOnce`
  (`HANDLE_CLOSING` is delivered at most once, and `closed` is set exactly when it
  passed `mark_final_callback_seen`), `Held` (where each reference is), and
  `OwnerKnows` (what the owner's position says of the handle and of `close_state`).
  None of the properties is inductive alone: that a waiting drop returns to
  quiescence needs the counter to be exact, and that no callback is on its way
  in needs the handle's state. From it: `TypeCorrect`,
  `DropQuiesces`, `StateOutlivesCallbacks`, `WakeupsArrive`,
  `NoCallbackAfterDrop`; `UnabortedDropDrains`, the promise finding 1 refutes,
  for requests that no redirect can abort; and `ImplementsDrain`, that every step is a
  step of `CallbackDrain` or a stutter.
  About `RedirectStrip`: `StripInv` adds `LeftHomeBare` (headers are on the
  handle only while the tracked origin is home) and `StillToRemove` (a callback
  that crosses origins has every header that is left still to remove). The
  argument for `NoHeaderLeaves`: a callback returns with nothing to remove, so what is
  on the handle then goes to an origin equal to the tracked one, which is home.
  Also `TracksOrigin`, `AbortFinal` and `StripTypeCorrect`. `NoHeaderLost` needs one fact more:
  as long as every hop was at home, the tracked origin is home, no header is to be
  removed, and the handle has all that it was given.
* **`Deadline_proofs`**. `IInv` adds `TearDown` (which timer states each point of
  the drop allows), `Parked` (the parked reference is there as long as a
  callback can run) and `Punctual` (an event on its way means the deadline
  passed, and the sender is never gone while the task listens). From it:
  `TypeCorrect`, `CallbackFindsState`, `ClosedMeansQuiet`, `TimeoutsAreReal`.
* **`Exchange_proofs`**. `IInv` has seven parts beside the type. `Stages` says which bodies come to
  which await; `Quiet` that nobody sends to a future that does not wait. `OneLine` is
  the heart: unless a read was given up, a waiting future's one answer is with
  WinHTTP, in a callback's hands, or in its mail, and nothing else is under way; from
  it come `OneAnswer` and that a buffer is only taken back when no operation has it
  (`Kept`). `Late` says what a read that was given up may still be at, `Aborted` at which
  awaits an abort can be noted. `Progress` relates the wire to the frames: how far
  the last frame is (`Reached`) before, during and after a write, whatever part
  of it WinHTTP took. From it: `TypeCorrect`, `BodyGoesOutWhole` without
  hypothesis; `BuffersOutliveOperations` and `OneAnswerEach` for callers that do not read on after
  giving up a read (`ReadAgain = FALSE`). That hypothesis is finding 2, and
  `UntilAReadIsGivenUp` shows that it is all that is in the way: both hold for any caller
  up to the first read it gives up.
* **`RetryLoop_proofs`**. The ring's balance is a sum over a window that moves, so the
  invariant says where each call is: there is a function from the calls of `log` to slots, counted
  back from the writer, with which the ring `Fits` them. A slot that still counts (`Living`)
  holds exactly the amounts of its calls, and how old those can be is bounded below and above by
  how far back the slot is (`AgeFits`; the bounds were checked with TLC, for rings of one to six
  slots, before they were proved). `RingTurns` is the index arithmetic of `advance()` modulo
  the number of slots: a bucket it clears comes to lie behind the new writer where no call is, any
  other moves back by as much as the writer went on. `SumIsMeasure` says what the fold over
  the buckets adds up to, for a ring of any size, from a smallest counterexample, since the
  library's induction is out of reach. From it, for any number and length of slots, any
  `max_extra_load` and any sequence of calls and ticks: `BudgetTypeCorrect`, `LedgerIsExact`,
  and `ExtraLoadIsBounded` for the fractions whose inverse is not cut down (finding 3).
  For the loop, `Counters` ties the counters of a request to where its
  loop is (retries left and retries made are `MaxRetries` together), `BodyThere` says
  that an attempt another may follow has left the body where it was, `OneSlot` that
  nothing ages, and `Books` that the budget has one deposit for each execute that was left, one
  withdrawal for each retry, and a balance that is their difference and never below the
  reserve's. The lemmas about amounts and sums are the budget's. From it: `TypeCorrect`, `BodiesGoOut`, `DeadlineHolds`, and
  `RetriesArePaidFor`, the budget's promise in its own amounts. `LoadIsBounded` is
  `NoRetryStorm`, the promise in `max_extra_load`, for the fractions whose inverse is not cut
  down; for the others it does not hold (finding 3).
* **`SystemText_proofs`**. `OneResolver` (a table that is being resolved is busy, and one
  thread has it), `Placed` (what each place of a thread says of its table and its
  converter) and `Counted` (each reference to the library belongs to a table in use or to a thread
  that looks up its exports). A table that was found stays found (`TablesStay`), so
  a step of one thread takes nothing from another. That there are never more references than tables,
  however many threads, is the injection from resolvers to tables not in use. From it:
  `TypeCorrect`, `LibraryStaysLoaded`, `ConversionsSound`.
* **`BodyUse_proofs`**. `ClientKept` (every holder has the Client that came with the
  response) is what rules out a read that fails for want of a session, `HandleKept` (the handle is
  there until an answer ends the body) what keeps anything from following the end.
  `AllCounted` says that the chunks returned and those lost are the chunks taken from the server, `LossBounded` and
  `TornLater` that what is lost or torn is owed to reads given up before.
  From them: `TypeCorrect`, `SessionHeld`, and `BodyIsDelivered` for bodies of any length and any reads given up.
* **`ClientParts_proofs`**. For the client's set-up, `SetupInv` relates the fields of the builder to the
  history of its calls: `ConfigSaid` and `SettingsSaid` (a field holds what the last call
  about it said, and the environment where none did), `OptionsSet` (which options of the
  session are set at each point of `open`), `Stages`, `RouteMade`. Histories are of any length, so "the last
  call" needs `LastPlace` and `LastStays`: the largest of some places of a sequence, from the
  well-founded order of finite sets, and how it moves when the sequence grows. `RoundedUp`
  says of `TimeoutMs`, for every duration and any scale, that the DWORD is never zero, never
  early and at most a millisecond late unless it saturates. For URLs, `UrlInv` says that the
  URL is `Canonical`: made of seven parts of which each stays as it is if it is made again
  (`HostDone`, `PortDone`, `UserDone`, `PathDone`, and `EncodedOnce` for query and fragment). The
  texts then agree by construction, and reading a text back gives the same URL (`ReadBack`), which
  the way through `http::Uri` and the base of a join both rest on. The three branches of
  `Url::join` are `JoinsHere`, `JoinsBelow` and `JoinsAway`, each against RFC 3986's resolution of the
  whole text. For texts, `decode_utf16` works on a whole body and the WHATWG decoder on
  one byte after the other, so `TextInv` says what state the latter is in after any bytes (`Follows`): an
  odd byte is its lead, a high surrogate at the end is waiting, and what is out is what
  `from_utf16_lossy` makes of the units before (`Kept`). `KeptMore` is the step: one more unit only
  changes what becomes of the unit before it. Behind a byte order mark the decoder is in the state it
  would be in without it but for one character (`MarkSkipped`). That flattening a longer
  sequence appends to the flattened one (`FlattenAppend`) is about a recursive function of the library,
  and comes from a smallest counterexample (`LeastNumber`), like `SumIsMeasure`. `ErrorsAre` and
  `DecoderIs` go through the tables of `encoding.rs`, all of them; `MarkAndRest`, `DecodedBy` and `RestOfBody` say
  that a mark outranks the charset and that the decoder gets the rest.
* **`Client_proofs`**. `OwnSteps` says that a step belongs to its part, so an invariant of a part is one
  of `Client`. From the lemmas above: `SetupIsAsAsked`, `UrlsAreAsWritten`, `CredentialsStayHome`,
  `TextIsAsDocumented`, for any calls, environment and failing options, any texts and operations, and any
  bytes and charset. For failures,
  `VInv` ties the policy to the calls of its builder (`ConfSaid`), the attempt's state to what callbacks told
  of it (`HeardInState`, which a new attempt empties on both sides), the result to what ended the
  attempt (`Explained`) and the verdict to both (`Decided`); `Chains` and `ErrorShapes` say which chains of
  sources `callback_error_to_error` can build, so that what a classifier sees through
  them is known: `FailuresAreExplained`, `RetriesAreAsked`. For the head, `HeadInv` says at each query
  what is known so far and how much of the buffer is whose (`BufferFits`), the headers being those of the
  lines parsed so far, in their order (`HeadersKnown`, `OneMoreInOrder`): `HeadIsAsReceived`, for blocks of
  any number of lines. `BodyIsDelivered` and `SystemTextIsSound` are `BodyUse_proofs`' and
  `SystemText_proofs`' theorems, carried over to `Client`.

What the proofs put right in the model:

* `RetryBudget` forgot old calls with a filter on its history, which the provers cannot look into; it
  now drops the first of them, which is the same for a log in the order of the calls.
* A large body without a length is none the code can be in (only what is above
  `LARGE_BODY_THRESHOLD` goes that way), yet `Exchange`'s assumption allowed it, and the loop of
  writes would have begun with nothing to write.
* The outcomes of an operation of `Exchange` were a choice with overlapping conditions: which one was
  taken on a closing handle was left to the reader.
* `ResponseHead` read the whole block of headers in one step; a line a step is what the
  loop of the code does, and what an invariant can follow.
* `ClientSetup` and `Verdict` looked for the last call of a kind with a filter; they now say which place
  it is at (`LastSaid`, `SaidLast`).
* `UrlAlgebra`'s removal of dot segments took a path that is absent for one that is empty (`NoPath`), and
  the modules said too little of what a proxy or a text may be (`ProxyChoices`, `UrlConstantsOK`).
* `TextDecode` began with an opening already read, so that no decoder had seen its bytes arrive; a body now
  starts empty, and `Openings` and `Following` only bound what TLC goes on with. Its tables of converters were
  built with operators the provers cannot look into; they are sets of pairs.

Only model-checked: every liveness property (`DropEnds`, `OperationsEnd`, `ExecuteEnds`, `RaceEnds`),
which is out of the prover's reach; the requests of `RequestCompose` (`RequestAsCalled`) and
the plans of `ParityProbe` (`ProbeSound`), which compare filters and folds over
sequences with a reference, so that a proof would be an induction over data; and the types of `Client`'s parts.

## 5. Findings

1. `WinHttpRequestHandle::drop` reads `callback_abort` and closes the handle in
   two steps. A redirect callback that aborts in between closes first; then the
   drop's own close fails and it returns without waiting, although the comment of
   the type promises that no callback can re-enter after it. Run `handle_drop`.
2. A caller that drops a `chunk()` future (not the timeout, which closes the
   handle) may call `chunk()` again: `guard.insert` replaces the buffer that the
   pending `WinHttpReadData` still writes into. Run `exchange_reread`.
3. `withdraw_amount` is `1 / p` truncated: any `max_extra_load` above 0.5 and up
   to 1 behaves as 1. Run `budget_load`.
4. `ClientBuilder::no_proxy` is documented to keep automatically detected system
   proxies out, but an empty configuration resolves to `Automatic`, and the
   session is opened for WinHTTP's detection. Run `client_no_proxy`.
5. `RequestBuilder::headers` is documented to send both values of a name, but
   each header line is added with REPLACE, and only the last value reaches the
   wire. Run `client_headers`.

6. The session is opened with the HTTPS proxy, or else the HTTP one, and a request
   that resolves to `Automatic` overrides nothing: a client with `Proxy::https()`
   alone ("Proxy HTTPS traffic only.") sends http requests by it, though
   `execute_request` says the session default "is already automatic". Run
   `client_other_scheme`.
7. A `null` value in an array of pairs is written as an empty value, where
   `RequestBuilder::form` says the output is that of `serde_urlencoded`, which
   skips it, as the code does in an object. Run `client_form_nulls`.

Three more that no run is spent on: a `chunk()` future that is dropped takes a chunk with it, and the
`Response` reads on to `Ok(None)` (`BodyDelivered` bounds the loss; the memory side of the same is finding 2);
deposits die early (section 3, `LedgerExact`), and
`Client::execute` deposits for requests outside the policy's scope, too.

Nor is one spent on these, which no document contradicts outright: `Url` compares
for equality with its userinfo and orders without it; `RequestBuilder::try_clone` is said
to refuse builders in an error state and also refuses streams, as `Body::try_clone` has it; a
response that came by HTTP/2 is called HTTP/1.1 where WinHTTP does not report its
protocol; the parity probe labels its hand-picked
`escape-prefix` inputs as an exhaustive shape, and a standard run measures
ISO-2022-JP on framed single bytes only, not on bare ones.

## 6. Plan

Done, in this order: the handle and its contract; signal and exchange; redirects; the
deadline; the budget; the retry loop; the client's set-up, requests and texts; URLs;
errors and the retry policy; the uses of a body; the system's tables; the head of a
response; the parity probe.

Next:

1. `RequestHandle` with a waker that polls inline, for the self-deadlock the debug
   assertions guard against.
2. `RetryLoop` with a clock, so that deposits age between attempts.
3. A module that composes `Deadline` with `Exchange`, in place of the flag `expired`.

Theorems worth proving next: `RequestCompose`'s `RequestAsCalled` and `ParityProbe`'s `ProbeSound`, once
their filters are written so that an invariant can follow them a step at a time.

## 7. Not modelled, and why

* Error wording, redaction, tracing, printing: sequential code on values, well
  covered by the repository's table tests.
* The splitting of URL and header texts into characters, the spellings of charset
  labels, `validate_proxy_url`: string work without state. `RedirectStrip` takes
  origins as opaque values, compared as `Origin` does.
* What ICU and NLS make of bytes, and the tables behind them; ISO-8859-16's table.
* What WinHTTP does with the options of a session, beyond the proxy it takes.
* Poisoned mutexes: the code recovers (`lock_or_clear`) without a state change.
* `isize` saturation in the budget: the amounts stay far from the limits.
* The probe's generator (`SplitMix64`), its hashes, its alias listing.
* The accessors that return or store one field; the debug-only re-entry tracking.
* Examples, tests, CI.
