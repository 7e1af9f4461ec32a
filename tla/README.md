# A TLA+ model of cc-gpt-adapter

cc-gpt-adapter is a local server that takes Anthropic Messages requests from
Claude Code, forwards them as Responses requests to the ChatGPT Codex backend,
and translates what comes back. This directory holds TLA+ modules of its
behaviour, TLC configurations that check them on small instances, and proofs
that TLAPS checks for every value of the constants. All paths below are
relative to `src/`.

## 1. The system

| Component | Files | State it keeps | Operations |
|---|---|---|---|
| Streaming converter | `internal/protocol/responses_to_anthropic.go` | open block, next block index, flags `messageStarted`, `terminal`, `hasTool`, `sawContent` | `Process` (one branch per event type), `Finalize` |
| Buffered answer | `internal/protocol/accumulator.go`, `ResponsesToAnthropic` | items by `output_index`, the response so far, `terminal`, `err` | `Process`, `Finalize`, the conversion |
| Stream pump | `internal/server/stream.go` | a channel of one frame, a channel of one activity signal, the idle timer, the request context | the goroutine of `decodeResponseFrames`, `nextFrame`, `streamResponse`, `nonStreamResponse` |
| Token manager | `internal/auth/token_manager.go` | `refreshMu`; nothing else is cached | `GetValidToken`, `ForceRefresh`, `refresh` |
| Credential store | `internal/auth/token_store.go` | the credentials file | `Load`, `Save` (temporary file, sync, rename, directory sync), `Delete` |
| Login command, callback, OAuth client | `internal/auth/login.go`, `callback.go`, `oauth.go` | a listener, a one-shot result, PKCE state | `Login`, `waitForCallback`, `ExchangeCode`, `Refresh` |
| Messages handler | `internal/server/handler.go` | per request: access, number of calls | `messages`, `callUpstream` with one retry |
| HTTP server | `internal/server/serve.go` | listener, shutdown goroutine | `Serve` |
| Codex client, turn states, sessions | `internal/upstream/codex/*.go` | turn state by session, with its expiry | `Do`, `Get`, `Put`, `Resolve` |
| Translation of requests | `internal/protocol/anthropic_to_responses.go`, `codex/transform.go` | none | pure functions |
| SSE codec | `internal/protocol/sse.go` | the reader | `Next`, `DecodeResponsesEvent` |
| Token count, configuration, commands, wire types | `token_count.go`, `config.go`, `main.go`, `types.go` | none | |

**How they interact.** `serve`, `login` and `logout` are separate processes that
share only the credentials file. Inside the server every request is a goroutine:
it takes a token from the token manager, calls the upstream, retries once after
a 401, and then pumps the response. The pump is two goroutines, which share two
channels of capacity one and the request's context; the handler's goroutine owns
a converter (`stream=true`) or an accumulator (`stream=false`).

**What is hard**, and where the properties are aimed (`PROJECT.json`,
"hazards", has each at its line):

- *ordering of events*: the upstream's items may be interleaved, repeated and
  left out, while the client insists on a strict order of blocks;
- *shared files and a mutex held across a network call*: rotation of refresh
  tokens, crashes between the provider's answer and the save, logins and logouts
  in the middle of a refresh;
- *races of a timer, a context, two channels and a client that leaves*;
- *answers that must come*: a silent upstream, a request that fails with the mutex
  held, a goroutine that sends to nobody, a browser whose login has timed out, a
  shutdown with streams open;
- *files that change one system call at a time*, under failures, kills and power
  failures;
- *what comes back over several turns*: the upstream's thoughts, calls and texts pass
  through two translations and the client before it sees them again.

**What makes each part correct.** The converter: strict order, one success and
only after a successful terminal event, tool inputs that parse. The accumulator:
the response the upstream produced. The pump: one answer for a client that
stays, timeouts only after silence, no leaked goroutine. The token manager: no
needless refresh, no forgotten rotation, no use of an unsaved token, no mixing
of accounts, and every request ends. The store: old or new credentials, never
half. The handler: one retry. Serve: an end within the bound. The turn-state
store: never another session's state, never an expired one.

## 2. The modules

| Module | Models | State and actions |
|---|---|---|
| `AnthropicEvents` | the events of `AnthropicStreamEvent` and their strict order, as `assertStrictAnthropicOrder` in the tests checks it | operators only |
| `AnthropicStream` | the promise to a streaming client | `stream`, `outcome`; `Extend`, `Complete`, `Fail` |
| `ResponseOutput` | `responseOutputToBlocks`, `stopReasonFor`, `functionToolInput`, `customToolInput`, shared by both answers | operators only |
| `StreamConverter` | `ResponsesStreamConverter` | the fields of the Go struct plus `emitted`; one action per branch of `Process` |
| `ResponseAccumulator` | `ResponseAccumulator`, `ResponsesToAnthropic` | the fields of the struct; `Process(event)`, with one operator per kind of branch (the eight that fill a string are `Delta` and `Done`) |
| `ReconstructedResponse` | the accumulator, fed by an upstream that tells the truth | `truth`, `told`; the upstream's choices |
| `MessageAnswer` | the promise to a client about one message | `answer`, `connected` |
| `StreamPump` | `decodeResponseFrames`, `nextFrame`, both response loops | channels, timer, context, client; one action per `select` case and per step of the goroutine |
| `TokenManager` | `TokenManager`, `callUpstream`, the store, and the commands | the file, the mutex, one program counter per request and per login; the provider and the upstream as the code observes them |
| `ComparedAnswers` | the converter and the accumulator, fed the same events | the state of both; one step tells one event to both |
| `AtomicStore` | the promise to the callers of the store | `stored`, `possible`; `Change`, `Settle`, `PowerFailure` |
| `CredentialStore` | `Save`, `Load`, `Delete` | the directory entry, what of it is on the disk, a temporary file and a program counter per process; one action per system call, one per way it fails, `Kill`, `Writeback`, `PowerFailure` |
| `AnthropicToResponses` | the translation of requests | operators only |
| `CodexTransform` | `Transform` and its steps, in their order | operators only |
| `Conversation` | several turns of a client and the upstream through both translations | the transcript, the last request, what was said; `Ask`, `Answer`, `Fail`, and `TransformOlder` for callers with the older fields |
| `TurnStateStore` | `Get`, `Put` and the lifetime of entries | `entries`; operators |
| `MessagesServer` | `Serve`, `messages`, `callUpstream`, `NewRequest` and `Do` | a program counter per request, the two goroutines of `Serve`, the clock |
| `LoginCallback` | `WaitForCallback` | a program counter per browser, the `sync.Once`, the channel, `select`, the two timeouts |
| `SequenceLemmas` | | lemmas for the proofs: `Append`, `SubSeq`, `Last`, `FlattenSeq`; sorted lists; `FlatMap`, what a list becomes when each element contributes a list, its filters, compositions and counts |
| `StreamConverterProofs`, `ReconstructedResponseProofs`, `StreamPumpProofs`, `TokenManagerProofs`, `CredentialStoreProofs`, `HttpServersProofs`, `ConversationProofs` | | theorems |
| `MC*` | | values of the constants for TLC |

`StreamConverter` extends `AnthropicEvents` and `ResponseOutput`;
`ReconstructedResponse` extends `ResponseAccumulator`, which extends
`ResponseOutput`. `ComparedAnswers` extends `ReconstructedResponse` and instantiates
`StreamConverter`: one upstream drives both. `Conversation` extends `CodexTransform`,
which extends `AnthropicToResponses`, which extends `ResponseOutput`: the blocks of an
answer are made by the operators that the converter uses. `MessagesServer` extends
`TurnStateStore`. `StreamConverter`, `StreamPump` and `CredentialStore` instantiate
`AnthropicStream`, `MessageAnswer` and `AtomicStore`, the abstract specifications
they implement. What a frame is to the pump (`content`, `quiet`, `terminal`,
`failure`, `done`) is what the converter or the accumulator makes of it.

### Correspondence with the code

- **Strings** of the wire are sequences of fragments, so that deltas and the text
  a done event repeats can be compared. Whether a string parses as a JSON object
  is membership in the constant `Objects`. Identifiers, model labels and usage
  counters are copied by the code and left out. The empty string is `<<>>`; the constant
  `Blanks` has the fragments that are whitespace. So the two tests of the code
  stay apart: `== ""` is `= <<>>` (`Complete`, `SentArguments`; `responses_to_anthropic.go:440`,
  450, 457), and `TrimSpace(...) == ""` is `Blank` (`functionToolInput`, line 112; `SaysNothing` for
  the result of a tool that failed, `anthropic_to_responses.go:300`).
- **StreamConverter** lets any event arrive in any state. `emitted` is everything
  `Process` has returned; events it returns together with an error are never
  added, because the callers drop them. Events that `Process` ignores are
  stuttering steps.
- **ResponseAccumulator** keeps `Content`, `Summary`, `Arguments` and `Input` in one
  record of lists of parts. `Finalize` is an operator.
- **ComparedAnswers** uses the actions of the other two as they are. An event the
  converter ignores in its state (`NoUseFor`: the early returns of `Process`,
  `handleTextDone`, `handleReasoningDone` and `handleItemDone`) leaves it unchanged. `orderly` is a history
  variable: the events came one item after the other, as the tests write them.
- **CredentialStore** has one action per system call of `Save`, `Load` and `Delete`. A
  file is what a reader sees of it and what would be left after a power failure; the
  entry of the directory counts its changes, so that what was reported can be
  compared with what is left. `made`, `seen` and `reported` are history variables.
- **Conversation** keeps of a request what `Transform` and the properties look at. Texts
  and arguments are sequences of fragments; the separators, marks and digests the code
  puts in are fragments of their own. `answered` and `told` are history variables. A filter is
  written `Which(s, Test)`: the concatenation of `<<x>>` for the elements that pass and `<<>>`
  for the others, which is what `SelectSeq` computes, and can be reasoned about.
- **MessagesServer** names a turn state after the request whose reply brought it, and an
  entry keeps the time it has left where the code keeps `expiresAt`: it has expired when
  nothing is left, as `!now.Before(expiresAt)` has it. The token manager is a step that
  succeeds or fails, and so is the pumping of an answer, which may also never end.
- **LoginCallback** keeps of a request to the callback what `validateCallback` tells apart:
  the method, and whether state, error and code are right.
- **StreamPump** counts time in ticks. A tick passes only while nobody can run:
  computing takes no time next to an idle timeout of 90 s. The interleavings of
  what can run are all explored. `silence` is a history variable: the time since
  the last byte.
- **TokenManager** makes a step of everything a request does up to the next point
  where another process can be noticed. Tokens are numbered in the order they are
  issued. `persisted`, `lost` and `session` are history variables. `Save` is one
  step that may fail before or after the file is replaced, which is what
  `CredentialStore` shows of it.

## 3. The runs

Distinct states, and the time with two workers.

| Run | States | What it shows |
|---|---|---|
| `MCStreamConverter` | 89,303, 23 s | Whatever events arrive, what is emitted is what `AnthropicStream` allows; the cursor, the flags and the tool buffer agree with what the client has seen; a tool call finished by its own done event has an input that parses, or the whitespace it was sent. |
| `MCReconstructedResponse` | 28,900, 2 s | However the events of a response are split, repeated, omitted and interleaved, `Output` is the upstream's, the buffered answer has its stop reason, and what has been put together at any time is what has been sent. |
| `MCTokenManager` | 832,412, 18 s | The safety of tokens with two requests, two logins, logouts, crashes and restarts. |
| `MCTokenLiveness` | 135,805, 22 s | Every request ends. |
| `MCStreamPump` | 148,126, 10 s | One answer, and it comes; timeouts only after silence; the goroutine ends. |
| `MCComparedAnswers` | 564,657, 20 s | Streamed in the usual order, a message has the content, the stop reason or the error of the buffered one, whitespace for arguments read as `{}`; in any order, the inputs of two tool calls are not mixed. |
| `MCCredentialStore` | 96,364, 4 s | Two processes, system call by system call: credentials are whole, what was reported is safe, `Load` tells what there was. |
| `MCConversation` | 343,022, 150 s | Three requests of a conversation: pairing, history, images, prefixes, tools. |
| `MCMessagesServer` | 1,311,284, 111 s | Three requests of two sessions and a shutdown: whose state a call carries, and how the server ends. |
| `MCLoginCallback` | 41,472, 5 s | Three requests to the callback: one attempt counts, everyone is answered. |
| `MalformedTools` | violated | Finding 1. |
| `LogoutRace` | violated | Finding 2. |

### The properties

*StreamConverter.* `ImplementsAnthropicStream` is refinement: the emitted events
only grow, in strict order, and complete once, after a terminal event that
succeeded. `CursorMatchesStream`, `FlagsMatchStream` and `BufferMirrorsClient` relate the
converter's bookkeeping to what the client has seen: a wrong index, a flag that
decides whether `Output` is sent twice, or a buffer that validates another string
than the one sent are hard to find by example. `FinishedToolsAreWhole` is an action
property: the input a client has put together for a tool call parses once a done
event has finished the call without an error, provided the done event is empty
or repeats what was streamed. Arguments that are nothing but whitespace are the exception
the property states: `functionToolInput` accepts them, and the client gets them as they
came.

*ReconstructedResponse.* `ReconstructsOutput`, `AnswersTruthfully` and `KeepsUpWithStream`
compare the accumulator with the response the upstream had in mind.

*TokenManager.* `NoNeedlessRefresh` (deduplication: the provider is only asked to
replace a token that is expiring or was refused), `StoredRefreshIsLive` (the refresh
token in the file is accepted, or its successor was lost on its way or is being
saved), `PersistedBeforeUse`, `AccessMatchesAccount`, `RetryUsesAnotherToken`,
`ServerKnowsSecret`, and the liveness property `EveryRequestEnds`, which is about a request up to
the return of `callUpstream`; the end of its answer is `ImplementsMessageAnswer` of `StreamPump`.

*StreamPump.* `TimeoutIsHonest` (no timeout while bytes came or a frame was under
way), `CompleteAfterTerminal`, `ImplementsMessageAnswer` (refinement with liveness) and
`ReaderEnds`.

*ComparedAnswers.* `SameAnswer` compares two separate translations of one response, whose
texts are put together in different places: a converter that says a repeated text
twice, or a buffered answer that picks another stop reason, breaks it. It
compares what a reader makes of the blocks: neighbouring texts are one, blocks
that say nothing are left out, and whitespace as the input of a call is the empty object:
the buffered answer says `{}` of such arguments, the streamed one sends them as they are. `ToolsAreNotMixed` is for every order of events: what the client
has put together of a call (`ClientInput`) is what was sent of one call of the upstream.

*CredentialStore.* `ImplementsAtomicStore` is refinement: whatever is interleaved, fails or
is killed, the machine has one whole set of credentials or none, and a power failure
leaves one that was there. `ReportedIsSafe` says that success means that the change is on
the disk. `LoadIsCurrent` says that a process is told that nobody is logged in only if
that was so at some moment while it looked.

*Conversation.* `ResultsFollowCalls`, `HistoryIsReplayed`, `ImagesAreSent` and
`ExtendsAnswered` relate a request to the answers and the requests of earlier turns, and to
the transcript it was made from; `ChosenToolIsOffered` relates the choice of a tool to
the tools as both are after five steps that depend on each other.

*MessagesServer.* `StatesStayInSession` and `ContinuesFromNewest` are action properties of
every call upstream: the state it carries was received for its own session and is in
its lifetime, there is one if there is any to carry, and it had not been replaced
already when the call that brought it began. `GracefulStop` says that no handler is cut
off before the time of the shutdown has passed, and that Serve reports success only if
it was told to stop; `StopsInTime` that it does return.

*LoginCallback.* `OneAttempt` says that the first request that gets as far as the state
decides, whoever else tries; `AllAreAnswered` that every request is answered and the
login ends, also if nobody takes the result any more.

Every property has a mutant: a change of one definition that a plausible bug
would make, under which TLC finds the property violated. Mutated forms are the
operators marked `mutant` in the modules; no specification uses them.

### The bounds, and why they are enough

- `MCStreamConverter`: two output indexes, since every comparison in the code is
  with the one open block; one text fragment; arguments that are half an object,
  a whole one or whitespace; `MaxEmitted` 7, enough for a message start, a whole block, a
  second block with a delta; the event that reaches the bound may still be the
  terminal one. `MaxBuffer` 4 bounds the input of a custom call, of which nothing is
  emitted before its end. `MalformedTools` has the same bounds, without whitespace.
- `MCReconstructedResponse`: ten responses of at most two items, which between
  them have every item type, one and two parts, a blank last part, strings of one and
  two fragments, empty, blank and cut-off arguments, and every status and reason. Two items are what
  interleaving and the order of `Output` need.
- `MCTokenManager`: two requests (one refreshes while one waits or calls), two
  logins and two accounts (one may replace the other), three tokens (one that was
  refreshed and one of a login), three commands or crashes. Requests, logins and
  accounts are symmetric: no property or action tells them apart. `MCTokenLiveness`
  uses no symmetry, and one login and one command.
- `MCStreamPump`: a timeout of two ticks, so that there is a time between no wait
  and the timeout; three reads of up to two frames, one more than the channel
  holds. `MaxReads` bounds what an upstream says, never how long it is silent.

- `MCComparedAnswers`: eight responses of at most two items: each type of item, a text in
  two fragments and in two parts, empty, blank, cut-off and malformed arguments, two calls that
  may be streamed side by side, every final status but `failed`, which may still come
  before the end. Two items are what the usual order, and any other, needs.
- `MCCredentialStore`: two processes, two sets of credentials, three changes of the entry
  (`MaxChanges`): one process can replace what the other looks at, remove it and put
  it back. Processes and credentials are symmetric.
- `MCConversation`: five messages (`MaxMessages`), which are three requests and two answers:
  what an answer became passes once more through the translation behind a newer one. Four
  answers, two of them with calls and one of these with two; a long call id; results in both
  orders; whitespace as a text, as arguments and as the result of a tool that failed.
- `MCMessagesServer`: three requests and two sessions, so that one session has two calls
  that overlap, or one after the other, and a third. An entry lives for one tick, and a
  shutdown waits for one: between any two steps the time may or may not pass.
- `MCLoginCallback`: three browsers: one that consumes the attempt, one that waits for
  it in `sync.Once`, one that comes after.

`CHECK_DEADLOCK` is off where the system does stop: a response has ended, a
request is over, the server is down and nobody is logged in, all entries have been
changed as often as the bound allows, a conversation has its length, a login is over.

### Fairness

- `TokenManager`: weak fairness of `Proceed(r)`, since both HTTP clients have a timeout
  (`oauth.go:106`, two minutes; `main.go:91`, thirty seconds for the upstream's headers), and strong fairness of `EnterRefresh(r)`,
  since `sync.Mutex` does not starve a waiting goroutine. Nothing is assumed of
  `Begin`, of the commands or of the provider's answers.
- `StreamPump`: weak fairness of the goroutine, of `select`, of writes, of the server
  noticing a closed connection, and of time. Fairness of writes says that a
  client that stays reads what it is sent: `serve.go` sets no write timeout, and a
  client that stays and never reads keeps its handler. Nothing is assumed of the
  upstream.

- `MessagesServer`: weak fairness of the shutdown goroutine, of `server.Serve` once the
  listener is closed, of `Serve` itself and of time. Nothing is assumed of handlers,
  clients and the upstream: a stream may last for ever, and `StopsInTime` holds all the
  same.
- `LoginCallback`: weak fairness of the handlers, of `select`, of the timeout of the login
  (`login.go:66`) and of the two seconds of the shutdown (`callback.go:77`). Nothing is assumed of
  the browsers.
- `CredentialStore`, `Conversation`, `ReconstructedResponse`, `ComparedAnswers` and
  `StreamConverter` have safety properties only, and no fairness.

### What the environment is assumed to do

`StreamConverter` assumes nothing of the order and content of what the upstream says, but that
an `encrypted_content` is empty or not blank: the converter keeps it if it is not empty (line 523) and sends
it if it is not blank (line 605), and whitespace is no ciphertext. `ReconstructedResponse` assumes that
a response it produces did not fail, that its items have the strings of their type and no
others, of which a call has one; that
what is said is true; that all has been said of an item when the terminal event
brings no `Output`, of a blank part that it is there (`HasPart`: nothing the code gets would
tell it otherwise); and that the terminal event names its status if
`response.created` had named one. The last matters: `accumulator.go:103` derives the
status from the type of the event only when none is known, so an `in_progress` kept
from `response.created` would become the final status (see the hazards).
`SameAnswer` is about streams in the usual order: items one after the other, each
announced and finished; parts one after the other, each told by its deltas, or a first
one by its done event. Outside of it the two answers differ, and
no document promises that they do not: of overlapping calls the streamed message fails
where the buffered one succeeds; a text whose block was closed by another item is said
again by its done event (`responses_to_anthropic.go:387`); a second part of a thought that only its done event tells,
or a text that only the done item tells, is in the buffered answer alone; a done event
that has the whole of what was streamed in part adds the rest to the buffered answer
alone.
`Conversation` assumes that the upstream gives every call an id of its own and a name, that
SHA-256 has no collisions among ids, and that an id is never the digest of another. Its named
assumptions say what a client, an upstream and another caller of `Transform` can send
(`ClientAssumption`, `UpstreamAssumption`, `OlderAssumption`): blocks and items of the known
types; the mark the code puts between texts is not among the fragments of anybody's text,
so that both can be told apart in what is sent; and a caller
with the older fields names a function in one of the two places the code looks at, not in both
(as the bodies of `transform_test.go:103-133` do). `CredentialStore` assumes of a disk that a rename is
atomic and that what was synced stays. That includes the directory of the credentials: at a first
login `MkdirAll` (`token_store.go:187`) makes it, `Save` syncs the directory itself but never its
parent, and `ReportedIsSafe` does not speak of a directory that is lost as a whole.
`TokenManager` assumes that a provider that rotates a refresh token refuses the old
one, and that an ID token names the account the tokens were issued to.

## 4. Findings

1. **A cut-off tool call can succeed** (`MalformedTools`). `README.md:49-51` says that
   malformed terminal tool arguments are errors and never produce a successful
   `message_stop`. In stream mode a function call that never got its done event is
   closed by the terminal event (`responses_to_anthropic.go:564`) without being
   parsed: the client gets half an object and stop reason `tool_use`.
2. **Logout can be undone** (`LogoutRace`). `main.go:75` prints "Logged out; local
   credentials removed." A refresh of a running server that loaded the file before
   the logout saves after it (`token_manager.go:95`), and the file is back.

## 5. The proofs

Assumptions are the named `ASSUME`s on the constants; TLC evaluates them in the
runs. They say no more than that indexes, bounds and strings are what their names
say, that braces and objects are not whitespace, that `NoRequest`, `NoAccount`, `NoName` are nobody's names, what can be sent in a
conversation (see above), and that a response of the upstream
is a list of items with the strings of their type, of which a call has one
(`TrueResponsesAssumption`).

**`StreamConverterProofs`**: `TypeCorrect`, `CursorCorrect`, `FlagsCorrect`, `ConverterImplementsStream`,
`BufferCorrect`, `FinishedToolsParse`.
The inductive invariant is `TypeOK /\ CursorMatchesStream /\ FlagsMatchStream /\ StreamInOrder`.
Strict order alone is not inductive: whether a delta may follow depends on which
block is open, which only the cursor knows; and the stop reason is honest only
because `hasTool` says what was sent. Strict order is stated on neighbours, so a
step has to look at the last event and the new ones only. The first part of the
module is a calculus of streams that are at a gap or in a block; the second has one
lemma per action. `StreamFullOutput` sends any number of blocks: that its prefixes are
in order is an induction on the number of blocks, done with a smallest
counterexample (`SequenceLemmas`), since the induction theorems of the library are out of
the provers' reach.

What the client puts together for a tool call is the concatenation of what each event adds
to it (`ClientInput`), so one more event adds what it adds and no more
(`ClientInputOneMore`). `ToolInv` strengthens the invariant by `BufferMirrorsClient` and
`BufferCounts`: `hadDelta` of a function call is FALSE only while nothing is buffered of it, so
that a done event which tells the arguments for the first time does not repeat a delta. A tool
call that is opened has a number no block had before, and no delta was sent of it: numbers
only grow along a stream in strict order (`BoundGrows`, `FreshBlock`). An action that is
about a block leaves the inputs of all others alone, because it opens, extends or closes the
one the cursor is at. `FinishedToolsParse` then follows from what `functionToolInput` checks, of the
buffer or of the repeated string, whichever fragments are `Blanks`.

**`TokenManagerProofs`**: `Invariant`, `TypeCorrect`, and a theorem per safety property of the
run. Beside these properties the inductive invariant says that the mutex belongs to
the request that works on credentials (`Holders`), that every token has been issued
and to the account it is used for (`Owned`), why a request refreshes and how often it
has called (`Accounted`), that the tokens of a login that has not saved them are nobody
else's (`LoginsOwn`), that the refresh token being saved has not been used
(`SavedIsLive`), and that there is one secret until a logout (`OneSecret`).
`StoredRefreshIsLive` alone is not inductive: a save puts another token in the file, and
only these say that it is live.

**`StreamPumpProofs`**: `Invariant`, `TypeCorrect`, `TerminalCompletes`, `TimeoutsAreHonest`, `PumpIsSafeAnswer`.
`TimerInv` says that while no activity is signalled the timer has only run through
silence, and that once it has run nothing is under way but a frame that the end of the
body has just ended, because time passes only when nobody can run. `AnswerInv` ties the handler's place to what was answered. Each
action preserves the invariant and is a step of `MessageAnswer` or a stutter.

**`CredentialStoreProofs`**: `Invariant`, `TypeCorrect`, `ReportsAreSafe`, `LoadsAreCurrent`,
`StoreImplementsAtomicStore`. The inductive invariant is `TypeOK`, `LoadIsCurrent` and three
facts that the properties need. `Prepared`: a process that is about to rename has all
of its credentials in its temporary file, and on the disk; hence only whole files are ever
at the path, which is part of `TypeOK` and what makes a power failure leave a whole file. `Followed`: the disk is behind the
directory but not behind what was reported, and a process about to report has made a change
the directory has. `Watched`: a process that loads has seen what is stored now. Each
action then is a `Change`, a `Settle` or a `PowerFailure` of `AtomicStore`, or a stutter.

**`ReconstructedResponseProofs`** has the proofs of `ReconstructedResponse` and of
`ComparedAnswers`, for any responses of any number of items, parts and fragments. Of the
former: `Invariant`, `TypeCorrect`, `AccumulatorKeepsUp`,
`OutputIsReconstructed`, `AnswerIsTruthful`. `KeepsUpWithStream` alone is not inductive: it says
nothing of a part that the accumulator does not have yet, which the next event may make
it fill with blanks up to another part (`accumulator.go:196-214`). The invariant `Known` adds that nothing was said of such a part,
and `Truthful` that all of a part is only told at its end, so that no delta comes after it.
The proof has a lemma about what a delta, a done event and a done item make of a list of
parts (`ExtendedParts`, `CorrectedParts`), one that changing one part keeps
`Known` (`PartChanges`), and one per kind of event. The rest of the invariant is about the
response (`ResponseInv`): until the terminal event it has at most a status, one the terminal
event will name again; then it is the upstream's. For that, of an item of which all was said
nothing but the item itself can have been put together (`WholeItemIsTrue`), the numbers of
the items known at the end, sorted, are 0 to n-1 (`AscendingInterval`, from what `Ascending`
says of a sorted list, not from how the code sorts), and so `sortedOutput` is the
upstream's list (`SortedOutputIsTrue`, `TerminalTellsTruth`).

Of `ComparedAnswers`: `ComparedInvariant` and `ToolsStayApart`, in whatever order the events
come. That the inputs are not mixed is not inductive by itself: what a done event sends
of a call is made of the buffer, and what goes into the buffer is what the upstream sends
next. `ComparedInv` adds to the invariant of the accumulator that every block so far has a
number below the next one (`GoodStream`), so that a call that is opened has no input yet, and
that the buffer of an open call is as much of the upstream's string as was sent of it
(`OpenCall`), the item and the type of call being the ones it was opened for. An event that
neither opens a call nor carries input leaves the inputs alone (`QuietMore`); what
carries input extends one that is open (`InputMore`), and a call without a block gets one
that is new (`ToolMore`). The terminal event sends whole blocks of the upstream's Output list only
when nothing was streamed (`FullOutputMore`, an induction over the blocks; `GoodOutputBlocks`).

`SameInvariant` and `AnswersAreTheSame` are about the usual order. What the client sees is put as a
relation first: `Reads(s, bs)` says that a stream `s` shows the blocks `bs`, with lemmas for
what one more event adds to them; `Gist`, as a `FlatMap`, distributes over concatenation.
`SameAnswer` says nothing before the end and is not inductive. `SameInv` says how
far both have come: there is an item `k` of which `d` parts were ended (`NowRead`) such that
all items before `k` are closed and none behind it was announced (`InTurn`); of the parts of
`k` only the next one was told in part (`Progress`); the blocks before the open one have the
gist of the items before `k` (`GistBefore`); the open block says what was said of `k`
so far (`OpenItem`, `SpokenTo`); and the flags `hasTool` and `sawContent` say
what was announced (`Flagged`). An event begins an item (`Begins`), tells it further
(`GoesOn`), ends it (`IsOver`), or makes the converter give up (`GivesUp`). It does that before the
end only at a call whose arguments the buffered answer rejects as well; from
then on `SameInv` says that the upstream's list is not `ValidOutput`. There is a lemma for each kind
of event (`AnnouncementRead`, `DeltaEventRead`, `DoneEventRead`, `ItemDoneRead`,
`ConclusionEventRead`, `FailureEventRead`). At the end (`TrueEnd`) the client has read what was
streamed or the blocks of the terminal event's Output list, which the converter sends only
when nothing was streamed; a call has been sent its true input, or whitespace that is read
as it (`ReadAsInput`); and `InvImpliesTruth` says that the accumulator's response is the
upstream's by then, so the buffered answer is made of the same list.

**`HttpServersProofs`** has the proofs of two modules. Of `MessagesServer`: `Invariant`,
`StopsGracefully`, `StatesAreKept`, `NewestIsCarried`. The inductive invariant has three parts. `Stopping` ties the two goroutines of `Serve` to each
other: the shutdown has completed only with nobody open or no time left. `RepliesKnown`
says that a state has been received, or was known when a call began, only of requests that were
replied to. `StatesKept` says that the entry
of a session, while it has not expired, is the newest state received for it, and that a
state lives no longer than its entry: what expires in the store is what the history
calls too old. Of `LoginCallback`: `LoginInvariant`, `OneAttemptCounts`. `Attempted` says that the handler
which took the `sync.Once` is the only one that may send to the channel or tell how the
attempt went, and that it tells what became of its request; `Sent` that a code in the
channel, or returned, is that handler's.

**`ConversationProofs`**: `ChoicesAreKept`, `InputGrows`, `HistoryIsKept`, `ImagesAreKept`,
`ResultsArePaired`, for conversations of any length. The transformations are lists of
filters and changes of every element. Each is stated as a `FlatMap`, a function from elements
to lists, and the whole path from the blocks of a message to the items that are sent is one
`FlatMap` of the transcript (`SentOf`, `SentInput`). `FlatMap` distributes over
concatenation and composes; these two, and induction over a set of sequences
(`SequenceInduction`, which needs no operator as a parameter), carry most of the module.

- `ChoicesAreKept` follows the five steps of `Transform` on the tools and on the choice. It needs
  no invariant: a request is transformed afresh each time.
- `TranscriptInv` says that the transcript is made of messages of the two sides, that
  the last request is what `SentOf` makes of it, and that `answered` was made of a first part
  of it. `InputGrows` follows, since `SentOf` of a longer transcript begins with that of
  a shorter one.
- `HistoryIsReplayed` is not inductive, and `told` does not suffice to make it so: it has the items of all answers one after the
  other, not how they were grouped, and every answer becomes a message
  whose thoughts, text and calls are sent apart. `AnswersInv` says that there is a list of answers that makes up
  `told` and, in the same order, the messages of the assistant. The three projections (signatures, texts, calls) of what
  one message sends are those of its items, and those of all other messages are empty
  (`Silent`).
- `ImagesAreKept` counts: how often an image is shown in a message and how often it is in what is
  sent of it are the same number, although the images of results come behind all others, so
  that the lists differ. The counts of filtered lists add up along a transcript.
- `ResultsArePaired` needs `PairsInv`. It says that the transcript up to its last answer is
  `Paired`, that the ids of the calls of that answer, as `compactCallIDIfNeeded` sends them, differ from each other and
  from all that were sent before, and that every id that was sent is that of an item told.
  Without the last part a new answer could reuse the id of a call
  that has its result already, and a second result would answer the first call. The results of a reply are an order of its
  calls (`OrderIsOnto`, by finite cardinality), come before whatever else it says (`ReplySends`) and right behind the calls,
  which are the last of what an answer sends (`AnswerEndsWithCalls`). Concatenating two paired lists without a
  common id gives a paired list (`PairedConcat`).

**Only model-checked.** Liveness (`EveryRequestEnds`, `ReaderEnds`, `StopsInTime`,
`AllAreAnswered`, the fairness of `ImplementsMessageAnswer`): TLAPS does not reason about
`ENABLED`. Every other property of a passing run is stated by a theorem.

## 6. What is not modelled

- The lines and fields of the SSE codec, session hashes, the token estimate, the limits
  of a body, headers: functions of one input, character by character; a model would only
  restate them. `StreamPump` starts at the frames, `MessagesServer` at the session.
- Custom JSON marshalling, JSON that does not decode, PKCE, URLs, permissions of files and
  directories, paths, flags, opening the browser: data.
- Images without inline data: `imageDataURI` drops them (`anthropic_to_responses.go:307`), and
  `ImagesAreSent` is about those that have it.
- Several servers on one machine: the port is fixed, so the second one does not
  start.
- `TurnStateStore.Delete` has no caller. Entries of sessions that are never asked for
  again stay in the map (`turn_state.go:49`): memory is not modelled. The store is
  keyed by session alone (`client.go:91`), and sessions of two accounts that log in one
  after the other are not told apart.

Behaviour that the models show, or leave out, and that no property speaks of, since no document
promises otherwise:

- A process that is killed inside `Save` leaves its temporary file behind, with the tokens
  in it, and nothing removes it.
- A `Delete` that could not sync the directory reports an error; the second try finds
  no file and reports success, without a sync (`token_store.go:149-153`).
- A browser is told "Login complete" (`callback.go:60`) before the code is exchanged and the
  credentials are saved, also if the login has timed out by then.
- Among calls of one session that overlap, the reply that arrives last decides on
  the turn state, whichever began first.
- `ReadTimeout` (`serve.go:33`) may, depending on `net/http`, reach into a handler that
  runs for longer than 30 s.
- A function call whose arguments are whitespace is accepted, and streamed as it came: its input
  is not JSON, although the buffered answer has `{}` for it (`responses_to_anthropic.go:112`, 457). A done event
  of whitespace also replaces what was streamed when the arguments are validated (line 450): half an object that
  was streamed before it reaches the client as it is.
- A client that stays connected and never reads keeps its handler: there is no write
  timeout.

## 7. Plan

What would add most next, in this order:

1. `CredentialStore` under `TokenManager`: the latter has `Save` as one step; the
   composition would show its properties with system calls in between.
2. The framing of `sse.go`, against a reference definition over bounded inputs.
