# A verification project for OpenPlus

OpenPlus is a terminal coding agent written in Go: a front-end sends the user's
messages to a session, the session runs an agent loop over a model provider and
a set of tools, and around that loop sit a context budget with checkpoints, a
goal judge, a fan-out of subagents over git worktrees with locks on code
symbols, clients of MCP and language servers, a semantic memory, and a state
machine for longer compositions.

This directory holds TLA+ modules translated from that code, TLC configurations
that check them on small instances, and TLAPS proofs of the properties that
matter most, for every value of the constants. `PROJECT.json` is the index: the
components, the runs, the map from every definition to the lines it models, the
mutants that show that each property can fail, the findings, the hazards and
the theorems. Line numbers below are those of `src/`; paths are relative to
`src/internal/` unless they say otherwise.

Contents: 1 inventory; 2 the plan; 3 the modules and the code; 4 the runs;
5 bounds; 6 fairness; 7 proofs; 8 disagreements found; 9 what is assumed;
10 what is not modelled.

---------------------------------------------------------------------------

## 1. Inventory

### 1.1 Components

| Component | Where | State it keeps | Operations | What makes it hard | What makes it correct |
|---|---|---|---|---|---|
| **Symbol lock store** | `coordinate/store.go` | one JSON file per locked symbol under `.openplus/locks`: agent and time; a mutex per process | `Acquire` (check all, then take all, roll back on error), `ReleaseAgent`, `Holder` | several processes share the files but not the mutex; writes that fail half-way; crashes; locks that expire under a live agent | claims in force are disjoint; a claim is granted whole or leaves nothing; a live lock is not stolen; calls return |
| **Native coordinator, coordinated fan-out** | `coordinate/native.go`, `runtime/coordinated.go`, `orchestrate/coordinate.go` | lock files, git worktrees `sub-<i>`, the repository's branch and its merge state | `Claim`, `Done`, `Release`; `FanoutCoordinated` over its tasks | every git command can fail; two processes name their agents alike; expiry; crash | a subagent has its worktree to itself; nothing is left on disk; locks prevent merge conflicts; every task is reported |
| **MCP stdio transport** | `mcp/stdio.go`, `mcp/jsonrpc.go` | the table of pending calls, the write lock, `closed`, `exited`; two pipes and a child process | `Call`, `Notify`, the reader goroutine, `fail`, `Close` | goroutines that race for one call; blocking writes; a server that hangs, dies, repeats itself | no send on a closed channel; no leak; nobody waits for a reader that is gone; Close, death and contexts end calls |
| **Turn** (session, agent loop, budget, checkpoint, judge) | `runtime/turn.go`, `agent/loop.go`, `contextmgr/budget.go`, `contextmgr/checkpoint.go`, `orchestrate/goal.go` | the caller's and the session's history, the turn's tool runs, `checkpoint.md`, the judge's round | `Session.Run` with its phases: assemble, agent loop, judge, persist, record, checkpoint, compact | long sequences; cuts of the history in several places; failed writes; restarts | no goal passes without a MET; what is forgotten is saved; the two histories agree; what is sent is the best that fits |
| **Event streams of the providers** | `provider/sse.go`, `provider/anthropic/anthropic.go`, `provider/openaicompat/openaicompat.go`, the drains in `agent/loop.go` and `orchestrate/maxmode.go` | per request: frame and error channels, the tool calls under way | read SSE, pump frames into events, drain | three goroutines and two channels per request, closed in a certain order; contexts | a consumer sees a prefix of the response and then its end or an error, never a silent truncation; every goroutine ends |
| Requests to a provider | `provider/*/`, `provider/select` | – | marshal a request, find an adapter by prefix | – | – |
| **MCP client, HTTP transport** | `mcp/client.go`, `mcp/http.go`, `mcp/tool.go`, `runtime/mcp.go` | how far each client has come, session ids, started servers | initialize, list, call; start and close all | servers that never answer, die or restart; partial starts | a broken server costs its own tools and nothing else; each subprocess has an owner; no request before the handshake |
| **Language servers, diagnostics** | `lsp/*.go`, `runtime/diagnostics.go` | clients per extension, opened files and versions, published diagnostics, pending edits | lazy start, open/change, publish, refresh, shutdown | asynchronous refreshes, start and shutdown that race, stale answers | what was noted is told to a server; one server per extension, each with an owner; no file opened twice |
| **Terminal front-end, permission prompt** | `tui/*.go`, `agent/loop.go` | bubbletea model: text, busy flag, pending prompt; the goroutine of the turn | `Update`, turns and commands, prompts answered through a channel | one event loop that also runs commands; a goroutine that waits for it and is waited for | a command that blocks the loop holds up no turn; a reply is for the call that was shown; text stays with its turn |
| **Permission policy** | `policy/policy.go`, `glob/glob.go` | rules | decide, prompt | overlapping rules, in the order of their spelling, read from a JSON object | the documented precedence; no tool runs denied |
| **Fan-out, worktrees, best-of-N** | `orchestrate/subagent.go`, `orchestrate/worktree.go`, `orchestrate/maxmode.go`, `runtime/fanout.go` | slots, worktrees, candidates | run N tasks with k slots, isolate, harvest, judge | concurrency limit, cancellation, partial failure, names shared by processes | a worktree is one subagent's and is not left; slots are returned; the winner was offered to the judge |
| **Workflows** | `orchestrate/workflow.go`, `runtime/workflow.go`, `jsworkflow` | phase outcomes, retry counts, the registry, the shared JS runtime | load, run phases, retry, interrupt | retry of what was half done, late interrupts | the report tells how far a run came, retries bounded; a script is struck only because a context ended |
| **Compose** | `compose/compose.go`, `runtime/commands_builtin.go` | phase, spec, approval, evidence, findings | start, advance, approve, record, find, resolve | gates over arbitrary command sequences | no phase passed with its gate open, and what passed stays |
| **Memory** | `memory/*.go`, `embed/embed.go` | chunks with vectors, an optional lexical shadow, pinned dimensions | write, prune, search, rebuild | several processes between the statements; a derived index; a fallback embedder | the cap keeps the newest; what was stored is found |
| **File memory, dream, distill** | `memo/memo.go`, `improve/*.go` | `MEMORY.md`, scaffolds, the runs of a session | append facts, mine and write scaffolds | read-modify-write of files the user edits | nothing that was kept is lost |
| **Assembly and configuration** | `runtime/assemble.go`, `config/*.go`, `cmd/openplus/main.go` | the wiring: servers, gate, store, exit code | parse, start, run, close | errors half-way, servers that hang | what was started is closed; an assembly ends |
| Grit backend | `orchestrate/grit.go` | none of its own | the coordinator port over an external binary | the binary is not in the repository | – |
| Task tree, tokenizer | `contextmgr/tasktree.go`, `contextmgr/tokenizer.go` | none | text to text, text to cost | headers that occur in text | the round trip of a checkpoint |
| Tools, skills, symbols, diff | `tool/*.go`, `skills`, `symbols`, `diff` | none between calls | one file or command at a time | – | – |
| Ports | `ports/*.go` | none | interfaces | – | – |

### 1.2 How they interact

* **Calls.** `tui` → `runtime.Session.Run` → budget → `agent.Loop` → provider
  (a channel of events) and tools; → judge → checkpoint. `Session.Fanout*` →
  coordinator → lock store and git; each subagent is an agent loop of its own.
* **Channels.** SSE reader → pump → agent loop; MCP reader → one channel per
  call; permission prompter → front-end → prompter.
* **Shared files.** `.openplus/locks`, the worktrees and the repository's
  checkout are shared by every OpenPlus process in the repository and nothing
  arbitrates between them but the file system and git. `checkpoint.md` and
  `MEMORY.md` are read and written by one session and by the user's editor.
* **Goroutines.** One reader per MCP server, one per language server, one per
  diagnostics refresh, two per provider request, up to k per fan-out, and the
  front-end's event loop, which also runs every command to its end.

### 1.3 The hard behaviours

`PROJECT.json` lists the hazards that weigh most, each at its line. The ones the
modelled part is about: check-then-write without a common lock (`store.go:82-119`), rollback of
a half-taken claim (`store.go:104-122`), locks lost by age (`store.go:92`),
names that two processes share (`coordinated.go:79`), early returns that skip a
release (`native.go:112`), a conflicted merge in a shared checkout
(`native.go:128-131`), three goroutines that may release one call
(`stdio.go:139`, `150-161`, `258`), writes that block (`stdio.go:222`), a wait
for a child's children (`stdio.go:256`), feedback on a stale history
(`turn.go:163`), forgetting what was not saved (`turn.go:174-186`), channels that
are closed in an order the other side cannot rely on (`sse.go:78`), and a
language server that two callers want at once (`manager.go:86-109`).

### 1.4 Lesser hazards

Met while reading, and either part of a model without a property of their own
or outside all of them.

* `contextmgr/budget.go:114`: a chunk that does not fit is skipped and a less
  relevant, smaller one kept, though the comment says to stop.
* `contextmgr/checkpoint.go:158`: the checkpoint is parsed at the first
  occurrence of a header, which may be in the summary. `checkpoint.go:83`: the
  old file is truncated before the new one is written.
* `runtime/turn.go:135`: a failed run gives its history to the caller and not to
  the session; `201`: the calls of the whole history are recorded as this
  turn's; `266`: a marker points to a file that the next checkpoint overwrites;
  `277`: compaction may cut between a tool call and its result.
* `coordinate/native.go:157`, `171`: a worktree left by a crash blocks its name;
  the fallback of a failed removal fails unseen.
* `mcp/stdio.go:132`: a request of the server's is taken for a response.
  `mcp/http.go:167`: a JSON body is taken as the answer whatever its id.
* `provider/anthropic/anthropic.go:113`: a closed error channel makes the pump
  spin until the last frame is taken; `146`: after an error frame it goes on.
* `lsp/manager.go:92`: a caller that comes while a server starts gets neither a
  client nor an error, and a refresh then forgets its file; `100`: a start whose
  caller gave up counts as failed for good; `106`: a start that ends after
  `Shutdown` is registered and never closed; `141`: the answer is whatever was
  published last, mostly about the text before the edit. `lsp/client.go:207`:
  two callers may send their texts in the wrong order.
  `runtime/diagnostics.go:101`: a file whose query fails is forgotten; `134`: a
  second refresh may store before the first; `runtime/assemble.go:512`: Close
  makes a nil pointer of the service that a refresh uses.
* `runtime/workflow.go:50`: a workflow started by a command streams its events
  to the event loop whose `Update` is running it; `CommandsRunAlone` has it.
* `tui/model.go:225`, `251`: turns and commands run under contexts that nothing
  cancels. `runtime/fanout.go:116`: a subagent's tools take relative paths to be
  relative to the process and not to its worktree.
* `orchestrate/maxmode.go:209`: a comment prefers `BEST: n`; the first integer of
  the reply is taken. `workflow.go:117`: what a failed attempt stored in the
  state is there in the next. `jsworkflow/jsworkflow.go:193`: a negative length
  compiles to a workflow without phases, though lists without elements are
  refused (123-126).
* `compose/compose.go:151`: the spec may be written anew after it was approved,
  and a write that fails leaves a broken document approved; `257`: of two
  findings with one id the second cannot be resolved, and the review is never
  left. `runtime/commands_builtin.go:208`: a finished composition stays in the
  way of the next; `410`: facts are appended one by one, and again after a
  failure.
* `memory/store.go:265`, `328`: the lexical shadow may part from the store; two
  prunes at once delete too much. `memory/fts.go`: the user's words are the MATCH
  query and may be no valid one, in which case the search fails.
  `embed/embed.go:113`: the dimension is pinned anew in every process, so the
  fallback embedder may store vectors that no query of the primary's can read.
* `config/config.go:600`: the path globs of the JSON objects of a rule map
  collide and a random one decides; `392`: the theme is saved over a concurrent
  edit. `policy/policy.go:157`: rules are ordered by their spelling. Environment
  variables of the embedder and the store are not looked at when the default
  file is absent.
* A session with the scripted provider still starts the MCP servers that the
  file declares; a git that is killed by the end of a context leaves a directory
  nobody releases.

---------------------------------------------------------------------------

## 2. The plan

The order is by what can hurt a user's work most: first what two agents may do
to one repository, then what may hang or crash the program, then what may lose
the conversation, then the rest.

| # | Modules | Composes | Abstract specification | State |
|---|---|---|---|---|
| 1 | `SymbolLock`, `LockStore` | – | `SymbolLock`: claims in force are disjoint | modelled, checked, safety proved, refinement proved |
| 2 | `Coordinator` | the lock store in two steps, git, the fan-out | – | modelled, checked, safety proved |
| 3 | `McpStdio` | callers, reader, closers, child | – | modelled, checked, safety proved |
| 4 | `Turn` (with `Positions`) | agent loop, budget, checkpoint, judge | the best choice that fits | modelled, checked, safety proved |
| 5 | `Stream` | SSE reader, pump, the consumer's drain | `Meaning`: what a response says | modelled, checked, safety proved |
| 6 | `Lsp` | hook, refreshes, manager, client, servers, Close | – | modelled, checked, safety proved |
| 7 | `Policy`, `Compose`, `Front`, `McpClient`, `Session` | `Program` composes them: a process from its start to its end | `Decided`: what the user's rules say; `ComposeSpec` | modelled, checked, safety and refinement proved |
| 8 | `Fanout`, `Workflow` | `Orchestrate` composes them: the jobs for several agents | – | modelled, checked, safety proved |
| 9 | `MemoryStore`, `Notebook` | `Recall` composes them: what sessions remember | – | modelled, checked, safety proved |
| 10 | operators | the checkpoint's round trip, the sections of the prompt, the task tree's parser | reference definitions | planned |

A run stands for a question. As modules arrived, the least telling of the older
runs gave way; what they showed is told in section 8.

What is still worth doing: the turn's memory (`persist`) as a composition of `Turn`
and `MemoryStore`; the operators of row 10. Of the properties of the runs, the
liveness properties are all that is not proved.

---------------------------------------------------------------------------

## 3. The modules and the code

### 3.1 `SymbolLock` – what the locks promise

No files, mutexes or processes: a worker is granted a set of symbols over which
nobody has a claim in force, gives it up, or keeps it until it has *lapsed*
(outlived `Store.Expiry`). `Disjoint` says that claims in force never share a
symbol, the sentence of the orchestration spec.

### 3.2 `LockStore` – how the store keeps it (`coordinate/store.go`)

One action is one step that another process can observe.

| Code | Actions |
|---|---|
| `Acquire`, entering `s.mu` (67-80) | `Call`, `Enter` |
| first pass: every symbol free, the agent's, or stale (82-99) | `CheckFree`, `CheckStale` (notes from whom), `Refuse` |
| second pass: `os.WriteFile` (113-124, 198-233) | `Open` (truncates), `Fill` (writes) |
| a write fails: roll back what was taken (104-122) | `WriteFails`, in each of its two places |
| `ReleaseAgent` (146-173) | `Release`, `List` or `ListFails` (the directory cannot be read), `Look`, `Remove` or `RemoveFails` (nobody is told), `Swept` |
| nobody releases; the process dies; time passes | `Abandon`, `Crash`, `Tick` |

`holder` and `age` are the files: a file that is empty, half-written or absent
reads the same (`readRecord` fails on all), so `Nobody` stands for the
three. `clock` (how long ago a claim began to write) and `orphaned` (who may have
left a lock behind: by going away, or because a removal failed) are ghosts for the
properties. The order in which the symbols are visited is arbitrary
here and the list's in the code. The code compares times with `>`; ages
saturate one past the expiry, beyond which nothing changes.

`KeepsPromise` is the refinement: a worker between the return of `Acquire` and
the call of `ReleaseAgent` holds its claim, lapsed when its clock says so.

### 3.3 `Coordinator` – the fan-out over git (`coordinate/native.go`, `runtime/coordinated.go`)

Each process runs the tasks of a fan-out one after the other, as agents 1, 2, …
(`sub-1`, `sub-2`, …, the same names in every process). `pc` walks through

    claim → take → add → run → commit → merge → remove → free

with `Blocked`, `ClaimFails` out of `claim`, and what fails on the way:

| Code | Actions |
|---|---|
| a lock cannot be written (`store.go:104-122`) | `TakeFails`: the rollback, which may fail in part |
| `git worktree add` fails, or is killed half-way (`native.go:94-98`) | `AddFails`: frees the locks; whatever git had made of the worktree stays |
| the subagent fails (`coordinated.go:94-103`) | `RunFails`, to `remove` |
| `git add` or `git commit` fails (112-123) | `CommitFails`: returns at once |
| `git rev-parse` fails (182-185) | `RevParseFails`: no merge, and no abort |
| the merge stops on a conflict, is not begun, or breaks off (189-194) | `MergeConflicts`, `MergeRefused`, `MergeBreaks`, all to `abort` |
| `git merge --abort`, whose result is not looked at (192) | `Abort`, `AbortFails`; then `freeing` **before** the removal (128-133) |
| `removeWorktree` (163-177) | `RemoveWorktree`, `RemoveFails`: with what the deletion and the prune leave |
| `ReleaseAgent` | `Free`, `FreeFails` |

On disk: `lock` and `live`; `wt`, with `missing` for a worktree git still
registers though its directory is gone; per worktree what it `edits` and what
`moved` on the branch since it was added; `merging`
(MERGE_HEAD) and `dirty` (uncommitted changes in the shared checkout). A merge
conflicts when the same symbol was changed on both sides, and is not started
during another one or over a dirty file. Acquire is one step for each of its
two passes, so two processes can still check before either writes; its finer
steps are `LockStore`'s.

`Faults` switches the failures on. The ghosts `leftLocks`, `leftTrees` and
`leftMerge` say what a failure or a death has left of which agent; an agent's next
release or removal that works takes its name off again. They are what
`QuietIsClean` excepts: everything else that is on a quiet disk would be a leak.
(It does not speak of `dirty`: the files that a broken merge or a stray edit has
changed in the checkout are nobody's to restore.)

### 3.4 `McpStdio` – the transport (`mcp/stdio.go`)

Goroutines are callers, notifiers, closers and the reader. A section under
`t.mu` is one step; what blocks is a step of its own: `t.writing`
(`LockWriting`), the write (`Send`, only with room in the pipe), the wait
(`Receive`, `GiveUp`: the select takes either), the reaping (`Reap`: since
`cmd.Stderr` is a writer and no file, `cmd.Wait` also waits until nobody holds
the server's stderr).

| Code | Actions |
|---|---|
| `Call` (164-208), `Notify` (211-218), `write` (221-228) | `Call`, `Notify`, `LockWriting`, `Send`, `SendFails`, `Receive`, `GiveUp`, `Forget` |
| `read` (122-145) | `Take`, `Deliver`, `EndOfStream` |
| `fail` (150-161) | `ReaderFails`, `ReaderReleases`, `ReaderStops`; `CloserFails`, `CloserReleases`, `CloserReturns` |
| `Close` (241-260) | `Close`, `AwaitExit`, `CloseStdin`, `Kill`, `Reap` |

The server owes nothing: it reads and answers in any order, twice, late or
never, and dies at any time. `Quirks` lets it send requests of its own whose
number may be that of a call, print garbage, or leave a child behind that keeps
its pipes open.

### 3.5 `Turn` – one turn after another (`runtime/turn.go` and what it calls)

`Submit` → `AssembleContext` → `ask`/`tools` (the agent loop) → `judge` →
`Record` → `save` → `BeginWrite`, `EndWrite` → `Compact` → idle. A message is
a number, a kind and a token cost. `caller` is the history the front-end
passes in and gets back, `session` is `Session.History`, `base` is
`currentHistory` (what a round starts with), `hist` the history the agent is at
work on, `Offered` what the budgeter chooses from, `file` the messages `checkpoint.md` tells. `RoomAfter` is the
budgeter's admission (`budget.go:74-144`): each cost in turn, one that does not fit is left
out and a later one may still fit; `SectionRoom` runs it over the sections of
the system prompt, `Recent` over the messages, newest first; its result is `Pick` of the positions
`Taken` (section 3.14). `JudgeUnmet`
appends the feedback to `base`, as the code does (163). `BeginWrite` and
`EndWrite` are the truncation and the write of `os.WriteFile`; `WriteFails` is
either of them failing, after which the code returns the uncut history.
`Crash` ends the process at any point.

### 3.6 `Stream` – one streamed response (`provider`, `agent/loop.go`, `orchestrate/maxmode.go`)

A response is a sequence of frames; of a frame the model keeps what it does to
the pump (`text`, `usage`, `end`, `error`, and `open`, `frag`, `stop` of a
numbered tool call), and of an event from which frames it was made, so that a
lost, doubled or misplaced fragment shows.

| Code | Actions |
|---|---|
| the body and the context | `Arrive`, `BodyEnds`, `BodyBreaks`, `Cancel` |
| `ReadSSE` (`sse.go:31-84`) | `Scan`, `ScanEnds`, `ScanFails`, `DropFrame`; the deferred closes `CloseErrs`, `CloseFrames` |
| `pump` (`anthropic.go:93-125`, `openaicompat.go:83-112`): the select over context, errors and frames | `SeesCancel`, `SeesError`, `TakeFrame` (the reader's send and the pump's receive in one), `SeesClosed` |
| `handleFrame` (`anthropic.go:128-236`), `handleChunk` (`openaicompat.go:143-197`), `finalize` (122-141) | `AnthropicFrame` and `OpenAIFrame`, inside `TakeFrame`; `Finalized` |
| `send` (`anthropic.go:337-343`) | `Tell` (with the consumer's `Receive`), `DropEvent` |
| the pump's return, and with it the closing of body and events | `PumpLeaves` |
| `drain` (`loop.go:75-105`), `generateText` (`maxmode.go:102-121`) | `Receive`, `SeesEnd` |

When several cases of a select are ready the model takes any of them. A closed
and empty `errs` stays ready for ever: the pump spins on it, which is a stutter.
What a response *means* is stated by `Meaning` without a parser, from the
positions of its frames. The definitions that `Turn` has too are named
`StreamInit`, `StreamNext`, `StreamSpec`, so that one module can hold the proofs
about both.

### 3.7 `Lsp` – edits, refreshes and language servers (`runtime/diagnostics.go`, `lsp/manager.go`, `lsp/client.go`)

One extension and one file of it. The agent's goroutine runs tools (`Mutate`),
then the hook (`Note`, `Schedule`); `scheduled` counts the goroutines that
`refreshDiagnosticsAsync` started and that have yet to begin. A refresher walks
through `TakeEditedFiles`, `NextPath` for every name, and `Store`; the agent's
own lsp tools are `Query`. Both ask through the manager:

| Code | Actions |
|---|---|
| `clientFor`, under `m.mu` (69-95) | `HasClient`, `GivenUp` (also: somebody else is starting it), `Start` |
| `NewClient`, `initialize` (`client.go:74-139`) | `StartFails`, `Initialized`, `InitFails` (closes the server) |
| `sync` (114-127), `DidOpen` (`client.go:202-226`) | `ReadFile`, `Mark` (under the client's lock), `Send` (outside it) |
| `Client.Diagnostics`, `storeDiagnostics` | `Look`, `Publish` |
| `Session.Close` (`assemble.go:495-515`), `Manager.Shutdown` (183-196) | `Shutdown` (takes the clients), `Kill`, `ForgetService` |
| a server's process | `ServerDies`, `Gone`, `StopsReading` |

`Send` is a write to the server's stdin under a context without an end, so it
waits for a server that has stopped reading (`"deaf"`) until that one dies.
`disk` numbers the file's texts; a server publishes about any text that the file
has had. `EditedPath` is the conversion of a call into the name that is noted,
by what it does: it takes the field `path`, whatever else the call has. A
refresh that finds the service taken away dereferences nil and takes the process
with it (`NextPath`, the state `panic`).

### 3.8 `Policy` – what the rules say of a call (`policy/policy.go`)

Operators, no state. `NewRules` lists the rules in the order the code does (tool
globs by their bytes, then path globs), `Permit` lets the last match decide (the
rule at the greatest of the `Matching` positions),
`GateSays` and `SubagentGateSays` are the gates of a session and of unattended
agents. `Readings` is the reading of a JSON object with several objects of path
rules (`config.go:586-606`), where Go's map order decides which of two equal
globs stands: any of them. A glob is the set of names it covers; of
the path globs only the empty one covers a call that names no path (91). `Program`
compares the outcome with `Decided`, and that with `Verdict`, which says it without
a list: the greatest path glob that covers the call, else the greatest tool glob,
else allow.

### 3.9 `Compose` – a composition (`compose/compose.go`, `runtime/commands_builtin.go`)

One action per command that succeeds: `StartCompose`, `CompleteGrill`,
`WriteSpec`, `ApproveSpec`, `AddTask`, `RecordFailingTest`, `MarkGreen`,
`RecordVerifyPass`, `RecordAdvisorRun`, `AddFinding`, `ResolveFinding`,
`Advance` with `Gate` (265-327). A refused command changes nothing, except
`WriteSpec`, which truncates the document before it fails. Variables are the
fields of `Session`.

### 3.10 `Front` – the front-ends and a turn's goroutine (`tui`, `agent/loop.go`, `cmd/openplus/main.go`)

The goroutine of a turn and the program's event loop meet in `out`, the message
that the one hands over and the other takes: `tea.Program.Send` returns when the
loop has taken it, or has ended.

| Code | Actions |
|---|---|
| agent loop: the drain (`loop.go:75-105`) | `StreamText`, `StreamThinking`, `StreamCall`, `StreamEnds`, `StreamFails` |
| `executeOne` (107-148), `Prompter.Ask` (`prompt.go:9-35`) | `AskGate`, `AskReturns`, `RunTool` |
| end of `Session.Run` (`turn.go:176-187`) | `Notify`, `EndTurn` |
| `Update` (`model.go:125-307`) | `TakeMessage` with `FlushedBy`; `AnswerPrompt`; `SubmitTurn`, `SubmitCommand`, `SubmitSender`, `CommandEnds`, `Quit` |
| `runTUI`, `runOnce` (`main.go:130-205`) | `OpenTerminal`, `RunOnce`; `SendToNobody` once the program has quit |

`SubmitSender` is a command that sends to the loop that runs it (`/theme`,
`theme.go:188`, and `/workflow`): `loop` is then `"stuck"`, which nothing ends.
`cur` is the text being shown, by the turns it is of; `granted` the call to
which the user last said yes.

### 3.11 `McpClient`, `Session`, `Program` – a process from start to end

`McpClient` has the conversation with each server: `Dial`, `Greet`, `Announce`,
`ListTools`, `CallTool`, `CloseClient` (`client.go`, `http.go`), and what the
servers do: `Die`, `Restart`, and `Hang`: a subprocess that stops answering, at
any request (`hung`, `Silent`). A request is one step here, which a silent subprocess does not let happen; how it
is carried is `McpStdio`. `heard` is what the *server* knows of the handshake, so
a restart of an HTTP server resets it and the client does not notice.

`Session` is `Assemble` (255-363) and `Close` (490-515) with every return on the
way: `Load`, then for each declared server in order `Connect`, `Keep`,
`CannotDial`, `GiveUp` (`mcp.go:80-119`), then `Connected`, `ChooseProvider`,
`BuildGate`, `OpenMemory`, `DiscoverSkills`, and `CloseMemory`, `CloseServer`,
`Leave`. What the user has set up (file, flags, environment, servers, rules) is
a record, `setUp`; `Abort` gives the exit code and, as the code does, closes
nothing.

`Program` composes these with `Front` and `Compose`: a turn may call an MCP tool
(`Run`, which waits while the call is `Unanswered`), a compose command runs inside `Update`, the session is closed when the
front-end returns, while the goroutine of a turn that was under way goes on.

### 3.12 `Fanout`, `Workflow`, `Orchestrate` – jobs for several agents

| Code | Actions |
|---|---|
| `RunAll` (`subagent.go:48-109`) | `StartFan`, `TakeSlot`, `LeaveQueue`, `WorkInPlace`, `RunEnds`, `EndFan` |
| `WorktreeIsolator` (`worktree.go:30-71`) | `Isolate`, `IsolateFails`, `Release`, each with what a git that fails or is killed leaves |
| `/max` (`maxmode.go`) | `StartMax` (clamped), `Sampled`, `Rank` |
| engine (`workflow.go:83-138`) | `StartFlow`, `NextPhase`, `Try`, `Succeeds`, `Retry`, `Fails` |
| `jsworkflow.go` | `Load` (`Compiles`, `NoLess`), `Interrupt`, `Interrupted`, and the goroutine of a call that is over: `StrikeLate`, `Notice` |
| context, death of a process | `Cancel`, `EndContext`, `Crash` |

The directories are named by the task and by a counter that each fan-out starts
anew, so two processes may want the same one; git refuses what exists. The
goroutine that watches a script's context selects over two channels that may
both be closed, so it may interrupt the runtime after its call is over and
strike the next one. `Orchestrate` runs one job at a time in a process and jobs
of several processes side by side.

### 3.13 `MemoryStore`, `Notebook`, `Recall` – what sessions remember

| Code | Actions |
|---|---|
| `Write`, `pruneToMaxEntries` (`store.go:223-338`) | `StartWrite`, `Insert`, `InsertFails`, `Index`, `Count`, `Select`, `Delete`, `Unindex`, `PruneFails` |
| `Search` (`search.go:38-145`), `fts.go` | `SearchBlind` (no write yet in this process), `SearchVectors`, `SearchFails`, `Match`, `Fetch` |
| `RebuildFTS` (340-368) | `Clear`, `Refill` |
| embedders (`embed.go:57-185`) | `Endpoint`, `Embeds`, `EmbedFails` |
| `/dream` (`memo.go`, `commands_builtin.go:388-416`) | `Dream`, `ReadMemory`, `Truncate`, `Fill`, `Break` |
| `/distill` (`distill.go`, `commands_builtin.go:592-634`) | `Distill` with `Patterns`, `Top`, `SuggestKind`; `Make` |
| the user's editor | `NoteFact`, `EditScaffold` |

Every SQL statement and every file operation is a step, so that processes
interleave between them. A row's id is that of SQLite (one more than the
greatest, so an id may come back), a vector is its dimension, and nearness is
any order. `Recall` has a process do one thing at a time.

### 3.14 `Positions`, `Processes`

`Positions` has the numbers of a finite set in ascending order (`Rank`, `Nth`,
`InOrder`), the elements of a sequence at such positions (`Pick`), and sums
(`Total`, `budget.go:146-152`). `InOrder` is the sort of the tool calls' indexes in
`finalize` (`openaicompat.go:126-131`) and of a rule map's keys. They are written by
counting rather than by recursion, so that what a step adds at the end of a
sequence can be proved of them. `Processes` declares the set of OpenPlus processes
that `Orchestrate` and `Recall` have side by side.

---------------------------------------------------------------------------

## 4. The runs

| Run | Question | Distinct states | Answer |
|---|---|---|---|
| `lock_store` | Is one store's claim exclusive, free of leftovers and of thefts, and does it implement `SymbolLock`, with refusals, failed writes and removals, rollbacks, abandoned claims, crashes and expiry interleaved in every way? | 159 thousand | yes: `IInv` (with `NoLeak` inside it), `Exclusive`, `NoTheft`, `KeepsPromise` |
| `two_stores` | Does the file system decide the winner between two processes, as `store.go:2-4` says? | – | no: both are granted (`OneWinner` violated) |
| `coordinator` | Do two processes with the same agent names, two tasks each, blocked, refused, conflicting or expired, with a git that fails to add, merge or abort, leave anything on disk that nobody is going to clean up? | 2.13 million | nothing but what a failed git command leaves: `IInv` holds |
| `coordinator_faults` | And with every fault, stray edits, crashes and restarts: is a worktree one subagent's, is what stays on a quiet disk the doing of a failure, and is every task reported? | 22 thousand | yes: `OneTenant`, `QuietIsClean`, `TasksEnd` |
| `mcp_stdio` | Can a call, a notification and two closers make the reader send on a closed or a full channel, close one twice, leave a call registered or wait for a reader that is gone; and does Close, or the server's death, end them all? | 88 thousand | no, and yes: `IInv`, `ChannelsSafe`, `NobodyForgotten`, `CallsEnd` hold |
| `stream` | Through cut, broken and refused bodies and ended contexts, has the consumer a prefix of what was said, all of it when nothing broke, an error only for a reason; does it return and is no goroutine left? | 242 thousand | yes: `StreamInv`, `Prefix`, `CleanMeansAll`, `EverybodyEnds` |
| `lsp` | With edits, questions, refreshes, a server that cannot start, refuses, dies, is late or no longer reads, and a Close at any moment: is a noted file left without a refresh, a broken server started twice, one left without an owner, a file opened twice, a server not told, a refresh stuck? | 293 thousand | no, the last two unless a server stops reading: `IInv`, `NoLostNote`, `NotedIsTold`, `RefreshEnds` hold |
| `turn` | Over several turns with cuts, judge, failures and restarts: is what is sent the best that fits, no goal passed without a MET, both histories one, and nothing gone that had room and is not saved? | 1.24 million | yes: `TypeOK`, `IInv`, `FitsBest`, `DurableFirst` |
| `turn_judge` | Does the judge see what the agent did in this turn? | – | no, not from the second round on (`WorkJudged`) |
| `program` | From every set-up through assembly, terminal or single turn, to the end: does a tool run that the rules or the user did not allow, is text shown under another turn, a phase passed unearned, a subprocess left, a server asked before the handshake, a turn held up by a command; and do Close and, but for a subprocess that hangs, assembly and turns end? | 312 thousand | no, and yes: `Permitted`, `OwnText`, `HouseRules`, `EveryServerOwned`, `Handshake`, `CommandsRunAlone`, `NobodyWaitsForEver` hold |
| `orchestrate` | With failing gits, ending contexts and a death: do subagents of two processes share a worktree or leave one, is the best one that was offered, does a report tell the truth, is a script struck only because a context ended, and does every job end? | 182 thousand | yes: `OwnWorktree`, `NothingLeft`, `BestWasOffered`, `ReportTells`, `OnlyEndsSpoil`, `EveryJobEnds` |
| `recall` | Two processes on one store and one project's files, with failures, a death and a user who edits: does the cap hold and keep the newest, does a search find, is anything forgotten? | 728 thousand | yes, within what the properties except: `CapKept`, `SearchFinds`, `NothingForgotten` |

Every property of a passing run has a mutant in `PROJECT.json`: the code with a
plausible bug (a rollback that removes the wrong half, a release that looks at
nobody's name, a lock that is not freed on an error path, a call that stays
registered while it is delivered, a slot that is not given back, a rule list in
which the first match decides, a prune that counts one too many, …), under which
TLC finds the property violated.

Some of the properties are worth a word.

* `FitsBest` compares the budgeter with *every* choice of messages that fits:
  none has a message the code left out and all the newer ones the code kept.
  That is "newest first" stated without an algorithm.
* `DurableFirst` is an action property of the step that ends a turn, well or not:
  of what the caller offered and does not get back, each message is told by
  `checkpoint.md` at that moment or had no room (`NoRoomFor`), which is said of
  the budget and of what was kept, not of the algorithm; and what the last round
  made is all given back or told. The budget's cut is told nowhere (section 8).
* `QuietIsClean` names its exceptions item by item: a lock is excepted only where a
  failure left *that agent's* locks, a worktree likewise, and a merge under way only
  after an abort that failed or a death.
* `NotedIsTold` and `RefreshEnds` except only a refresh that waits *for ever* in a
  write to a server that does not read (`[]Blocked(r)`).
* `Prefix` and `CleanMeansAll` compare the pumps, which keep calls under way and
  tell them late, with a meaning read off the positions of the frames.
* `EverybodyEnds` has a hypothesis, `Polite`: with a server that goes on after
  an error frame it is false (section 8).
* `NotedIsTold` and `NoLostNote` speak of what *was* noted; a call whose field is
  named `file_path` notes nothing (section 8).
* `Permitted` relates a running tool to the user's rules, read in any order the
  JSON object may be, and to the *number* of the call that was on the screen when
  the user said yes.
* `CommandsRunAlone` does not say that commands end, since some do not; it says
  that a command which blocks the loop never takes a turn or a prompt with it.
* `EveryServerOwned` and `NobodyWaitsForEver` name their exceptions: an assembly
  that aborts leaves its servers, and one that asks a subprocess which hangs, at
  whatever request, waits for ever, as does a turn that runs such a server's tool.
* `CapKept`, `SearchFinds` and `NothingForgotten` carry in ghosts (`overfull`,
  `raced`, `disturbed`, `crossed`, `faults`) exactly the events under which the
  promise is off; each of those is reachable in the run.

---------------------------------------------------------------------------

## 5. Bounds, and why they are enough

* **Lock store**: two workers, two symbols, expiry 1. Two claims are the most
  an exclusion property relates, and two symbols are needed for a claim that is
  half taken when its write fails and for claims that overlap in part. Expiry 1
  gives the three ages that matter: fresh, at the limit, past it (the
  comparison is strict). `two_stores` has no expiry, so that the double grant
  cannot be an expiry's.
* **Coordinator**: two processes, two symbols in one file, so that a file can be
  dirty through the other symbol; `MaxTasks` is the code's limit on a fan-out, 2
  where a later task can meet an earlier one's leftovers, with the faults of git
  that the fan-out itself must get over, and 1 with one symbol and all faults on. A process may start any number of fan-outs one after the other.
* **MCP**: one call with one notification, so that there is a queue for the
  write lock; two closers (the session's end and the end of its context may both
  close); one place in the pipe, so that the second write blocks. The proofs are
  for any number of calls.
* **Stream**: every response of up to two frames over one call's number, and
  five longer ones in which two calls interleave, one is opened again or left
  open, and frames follow the end or an error. Two frames are enough for every
  order of the ends of the two channels; the longer ones are about the parsers.
* **Lsp**: one name, two texts, one refresher beside the agent's own questions,
  one refresh that waits to begin (`MaxScheduled`: the model waits where the
  program would start another goroutine, which would find the same files), two
  processes of a server: the second is the one started after a Shutdown, or the
  one that two callers would start if the extension were not marked. A server that
  stops reading does so for good: one that reads again only delays a write. Calls have
  the fields `file_path`, `path`, or both: a model may make a call of write or
  edit with a field that the tool ignores, and only such a call is noted.
* **Turn**: eight messages over all turns (six for `turn_judge`), costs 1 and 3
  against a budget of 9, a mark of 5, two recent messages kept, two judge
  rounds. The cuts of the budget and of the compaction both happen, in one turn
  and across turns, and a message that does not fit is followed by one that
  does. `MaxMessages` is the only bound that is not a parameter of the code.
  The deadlock check stays on: a history that has used up its messages can
  still restart.
* **Program**: twenty-one set-ups, each chosen so that one step of an assembly
  succeeds or fails (file good, absent, asked for and absent; model from the
  file, the flag, the environment, or none; key, base URL, adapter, embedder,
  store there, absent or broken; servers that answer, may hang or are none; rules
  with an unknown decision, rules of which two name one glob, and one for the
  empty path glob). Three tools, two paths, one server of each kind beside
  `context7`, two incarnations of an HTTP server. The subprocess may hang at any
  moment in two set-ups, one with a terminal and one with a single turn. Two
  turns and two calls: one call's answer can meet the next call's prompt, and one
  turn's text the next turn. Two servers at once are started, kept and closed in a
  set-up of their own, whose user runs no turn; each kind alone is called in
  another. Compositions run in a set-up of their own, with two
  tasks, two versions and two findings of one id; the theorems are for any
  number.
* **Orchestrate**: two processes with two tasks each, one with a slot for both
  and one with a slot for one, so that a task is queued behind another and two
  fan-outs want one directory; two fan-outs or `/max` in all, one death, one
  process whose contexts end. Workflows of no, one and two phases, with and
  without a retry, two runs: the second is the one that a late interrupt strikes.
  Fan-outs, `/max` and workflows are checked one kind at a time (`Kinds`), for
  they share nothing but the rule that a process has one job.
* **Recall**: two processes, a cap of one, three writes: two chunks to prune and
  one to prune too much. Two dimensions, and endpoints that may change theirs.
  Turns and commands are checked apart (`Parts`): they touch different files.
* `CHECK_DEADLOCK FALSE` is set for the MCP, stream, lsp, program, orchestrate
  and recall runs: there each goroutine acts once, a response ends, the session
  is closed, or the bounded turns, jobs and writes are used up, and the system
  really stops.
* Symmetry is used in `lock_store` and `coordinator`, which check no liveness;
  their specifications use the permuted constants only by equality.

---------------------------------------------------------------------------

## 6. Fairness, and what justifies it

* **Coordinator**: weak fairness of `Proceed`, that is that git commands end, well
  or not, and that a subagent's turn ends. The latter is an assumption on the model (it
  stops asking for tools); nothing in `agent/loop.go` bounds a turn. No step
  waits for another process, and that is what `TasksEnd` checks.
* **MCP**: weak fairness of every goroutine that can move, strong fairness of
  the write lock. **Nothing** is assumed of the server, nor that anybody calls,
  closes or cancels. That a closed transport kills its server is a step of
  `Close`, not an assumption.
* **Stream**: weak fairness of the reader, of the pump and of the consumer's end.
  Nothing is assumed of the network, of the context, or of which case a select
  takes.
* **Lsp**: weak fairness of the hook, of a refresh and of a question that was
  put, all straight-line code. Nothing is assumed of the model that calls tools,
  of a server, which may never answer `initialize` or stop reading what it is sent
  (`Send` is not enabled then), or of the user who quits.
* **Program**: weak fairness of the assembly, of the front-end's start, of a
  turn's goroutine, of the loop's taking of a message and of Close, all
  straight-line code; strong fairness of the end of a reply, that is that a model
  does not stream for ever; and that the user answers a prompt that is shown,
  without which a turn waits, as it should. Nothing is assumed of the servers, of
  which a subprocess may hang in the middle of an assembly or of a call (no step of
  whoever asks it is enabled then), nor that anybody types or quits.
* **Orchestrate**: weak fairness of each process's job and of the workflow's
  phases: a reply, a git command and a phase come to an end. Nothing is assumed
  of contexts or of the late interrupts.
* The properties of the lock store, of `Turn` and of `Recall` need none.

---------------------------------------------------------------------------

## 7. What is proved

All proofs are checked by TLAPS with SMT, Zenon and, for the temporal steps,
LS4. Each theorem is `Init => IInv`, `IInv /\ [Next]_vars => IInv'` and
`IInv => property`; the step is proved action by action. The `IInv` of `LockStore`,
`Coordinator`, `McpStdio`, `Turn` and `Lsp`, and `StreamInv`, are also invariants of
their runs. `Program` has one inductive invariant for each property, and these,
those of `Orchestrate` and `Recall`, and what `FitsBest`, `Prefix` and
`CleanMeansAll` need, are in the proof modules, next to the proofs. Every safety
invariant and every action property that a passing run checks is proved.

| Theorem | Says | Holds for |
|---|---|---|
| `LockStoreProofs!Disjointness` | claims in force are disjoint | any workers, symbols |
| `LockStoreProofs!Typing` | `TypeOK` | any processes, agents, symbols, expiry |
| `LockStoreProofs!Safety` | `IInv`, the whole inductive invariant | any workers of **one** process |
| `LockStoreProofs!Exclusion` | `Exclusive` | the same |
| `LockStoreProofs!NothingLeft` | `NoLeak` | the same |
| `LockStoreProofs!Lawfulness` | `NoTheft` | the same |
| `LockStoreProofs!Implementation` | `KeepsPromise`: the store implements `SymbolLock` | the same |
| `CoordinatorProofs!Safety` | `IInv` | any processes, tasks, faults |
| `CoordinatorProofs!Tenancy` | `OneTenant` | the same |
| `CoordinatorProofs!Cleanliness` | `QuietIsClean` | the same |
| `McpStdioProofs!Safety` | `IInv` | any calls, notes, closers, server |
| `McpStdioProofs!Channels` | `ChannelsSafe` | the same |
| `McpStdioProofs!Unregistered` | `NoLeak` | the same |
| `McpStdioProofs!Accounted` | `NobodyForgotten` | any server that prints no garbage |
| `AgentProofs!StreamSafety`, `StreamTyping` | `StreamInv`, `StreamTypeOK` | both protocols, any responses and numbers of calls |
| `AgentProofs!Blame` | `FailsForAReason` | the same |
| `AgentProofs!Reading` | `Prefix` | the same |
| `AgentProofs!Completeness` | `CleanMeansAll` | the same |
| `AgentProofs!TurnSafety` | `IInv` of `Turn` | any judge, rounds, history |
| `AgentProofs!Gated` | `GoalGate` | the same |
| `AgentProofs!Recorded` | `InStep` | any history and cut |
| `AgentProofs!Durable` | `DurableFirst` | any history, costs, budget, judge, cut, window |
| `AgentProofs!TurnTyping` | `TypeOK` of `Turn` | any history, costs, budget, cut, rounds |
| `AgentProofs!Fitting` | `FitsBest` | the same |
| `LspProofs!Safety` | `IInv`, with `OneFork`, `NoOrphan`, `OpenedOnce` | any names, calls, refreshers, servers, faults |
| `LspProofs!Remembered` | `NoLostNote` | the same |
| `ProgramProofs!Typing` | `ComposeTypeOK`, of a compose session alone | any tasks, findings, versions |
| `ProgramProofs!Rules` | `HouseRules` | the same |
| `ProgramProofs!Twins` | `TwinStaysOpen`: a second finding of one id stays open | the same |
| `ProgramProofs!Settling` | `Settled`: what a phase has passed on is left alone | the same |
| `ProgramProofs!Composes` | `Program` implements `ComposeSpec` | any program: tools, rules, servers, set-ups, turns, calls |
| `ProgramProofs!ProgramRules` | `HouseRules`, `TwinStaysOpen`, `Settled` of the whole program | the same |
| `ProgramProofs!Alone` | `CommandsRunAlone` | the same |
| `ProgramProofs!Text` | `OwnText` | the same |
| `ProgramProofs!Consent` | `Asked`: a tool that runs is allowed by the gate, or was granted while this call was shown | the same |
| `ProgramProofs!Greeting` | `Handshake` | the same |
| `ProgramProofs!Owned` | `EveryServerOwned` | the same |
| `ProgramProofs!Permission` | `Permitted`: a tool that runs is one that the greatest glob of the user's rules allows, or was asked about and granted | the same, with any globs, rules and calls |
| `ProgramProofs!ProgramTyping` | `TypeOK` of `Program` | the same |
| `SharedProofs!OrchestrateSafety`, `OrchestrateTyping` | `OrchestrateInv`, `TypeOK` of `Orchestrate` | any processes, tasks, slots, samples, faults; any workflows, phases, retries, runs |
| `SharedProofs!Isolation` | `OwnWorktree` | the same |
| `SharedProofs!Cleanliness` | `NothingLeft` | the same |
| `SharedProofs!Ranking` | `BestWasOffered` | the same |
| `SharedProofs!Reporting` | `ReportTells` | the same |
| `SharedProofs!Spoiling` | `OnlyEndsSpoil` | the same |
| `SharedProofs!RecallSafety`, `RecallTyping` | `RecallInv`, `RecallTypeOK` | any processes, cap, writes, dimensions, endpoints; any facts and scaffolds |
| `SharedProofs!Capping` | `CapKept` | the same |
| `SharedProofs!Finding` | `SearchFinds` | the same |
| `SharedProofs!Remembering` | `NothingForgotten` | the same |

The arguments:

* **Exclusion** needs `OneStore`, that all workers are of one process; the run
  `two_stores` shows that it is false without. The invariant follows a claim
  from the check to the release: `MutexInv` (who is inside holds the mutex),
  `ClearedInv` (what the first pass found free stays nobody else's, since
  everyone else is outside), `TakenInv` (what the second pass has written
  stands, and a sweep removes only its own) and `HeldInv` (a claim's locks
  stand, no older than the claim, until it lapses). `Exclusive` alone is not
  inductive: it says nothing of the files on which the next claim decides.
* **NothingLeft** and **Lawfulness** need to know that a lock on disk names an
  agent that holds it, has yet to sweep it, has just written it, or will never
  come back for it (`LeakInv`, `SweepInv`), and that what the first pass found free
  or noted as expired is still so when the second pass writes it (`NotedInv`).
* **Implementation** maps `Fill` of the last symbol, or `Enter` of an empty
  claim, to `Grant`; `List`, `Abandon` and `Crash` to `Drop`; `Tick` to `Lapse`;
  all else to a stutter. That `Grant` is allowed is `ClearedInv`.
* **Tenancy** rests on git refusing a worktree path it knows; **Cleanliness**
  on `CleanupInv`: everything on disk has somebody who is still going to clean
  it up, or is counted among what a failure left of that agent (`leftLocks`,
  `leftTrees`, `leftMerge`). On a quiet disk nobody is, so only the latter remains.
* **Channels** rests on `OwnersInv`: while a call is in `pending` nobody touches
  its channel, and whoever takes it out touches it once. **Accounted** needs in
  addition that nobody starts to wait once the reader has failed (`StreamInv`,
  `WaitInv`): a write can no longer succeed then. With garbage that is false.
* **Blame** follows an error from where it arises to the consumer: what is in
  `errs` while a pump is there, what the pump is about to tell (`todo`) and what
  the consumer failed with each has a `Reason`, and reasons never go away. For
  **StreamTyping** the frames an event was made of are bounded by how many were
  read, which only grows; that the calls told at the end are events is the lemma
  `FinalizedTells`.
* **Reading** and **Completeness** rest on `FaithInv`, which holds as long as the
  context goes on. `ParserInv` says what the parser's state is in terms of the
  response: which calls are open after the frames that were `Handled`, and which
  frames are in each one's arguments (`AnthropicParser`, `OpenAIParser`). With it
  `Faithful` is inductive: what the consumer has got and what the pump has still
  to tell is together what those frames mean. A frame lengthens the response's
  meaning by exactly what the parser tells of it (`AnthropicGrows`, `StopTold`,
  `TextsGrow`, `FinalMeans`). `Lone` says that an error is told alone, and `Ending`
  that a pump which leaves without an error saw `[DONE]`, or the end of a body
  that ended and was read to its end. The meanings are over sets of positions, so
  that a frame adds one position and no induction over the response is needed.
* **Fitting** needs `Fresh`, that messages are told apart by their numbers, and
  `Fitted`, that what a first round starts with is `Recent` of the caller's history
  with the message appended. That `Recent` is the best choice is the lemma `Best`:
  what a set of positions costs is its sum (`SumFacts`, `PickTotal`), the room left
  after the newer ones is what they did not cost (`Spent`), and a message that was
  left out did not fit into it. The room is a recursive function of the model; its
  equations (`RoomFacts`) come from `Recursion`, and what holds of each of its values
  from `Upward`: lemmas about any set of numbers and any such function, proved by
  looking at a least counterexample.
* **Durable** follows the messages a turn was offered (`Held`): from the assembly
  on, each is in the history that a round starts with, or had no room, and the
  history at work holds all of that one. At the cut it is the arithmetic of
  **Fitting** (`Spent`: the room left after the newer ones is what they did not
  cost). Of the end it needs that what is compacted has been written
  (`pc = "compact" => Ids(hist) \subseteq file`).
* **Lsp**: `StartInv` says that one server starts at a time, that the extension is
  marked as failed meanwhile and after a start that failed, and that a server in
  the manager is up or dead: with it `OneFork` and `NoOrphan` are preserved.
  `OpenInv` says that who marked the file under the client's lock is the one who
  sends `didOpen` outside it, and that nobody did before; `AskInv` gives the steps
  their types. **Remembered**: the hook that notes a file is about to schedule a
  refresh, and only a refresh that begins takes the notes.
* **Rules** is inductive as it stands, because each gate asks for what the phase
  before demands and nothing ever takes it back; **Settling** has one step per
  command. **Twins** rests on `ResolveFinding` going to the first of an id.
* **Composes** is the refinement: a step of `Program` is a step of `Compose` or
  leaves its variables alone (`ComposeMoves`). What is proved of a compose
  session is thereby true of every program, which is **ProgramRules**. The other
  theorems about `Program` take its steps apart in the same way (`FrontMoves`,
  `McpMoves`, `ListMoves`) and have an invariant each.
* **Alone**: `AloneInv` says that a turn, or a message of one, means a busy model
  as long as the loop is free, so that enter is held back; it needs that `done`
  is the last message of a turn. **Text** adds what is left in `cur` when a reply
  is over (`TextInv`): nothing but text of broken streams, from when the loop has
  taken `turnend`.
* **Consent**: `AskInv` says that of a question there is one trace at a time, the
  message, the prompt that is shown or the reply in the channel, that it is about
  the call that is up, and that the turn waits meanwhile. So the channel is empty
  when the next call asks. That the rules do not change meanwhile is `Quiet`: no
  turn runs during an assembly.
* **Permission** adds what the rules say. `RulesInv`: from the gate on the rules are
  those of the user's file in one of the readings its JSON may have. `Verdicts`: on
  such a list `Permit` says what `Verdict` does, since the rules on paths come after
  those on tools, each kind in ascending order of its globs, so that the greatest
  position that matches is that of the greatest path glob, or else of the greatest
  tool glob (`LastOfTwo`).
* **Greeting**: `HandInv` says that a client that is ready told *this* incarnation
  of its server, or the server restarted. **Owned**: `OwnInv` adds that a server
  never dialled does not run, and that nothing is left to connect from the
  provider on, when only the list of clients owns what runs.
* **ProgramTyping** has to count: a call that is up is numbered and still listed,
  so the bound of `callNo` is one of `callNo + Len(todo)` (`WorkTyped`).

* **Isolation** and **Cleanliness** of fan-outs: `Owned` says that the directory of a
  subagent at work is on disk and in git's books and nobody else's; git refuses one
  that exists, so a process that wants the same name gets none. `Shaped` says what
  the place of a task tells about its directory and its result. `Counted` bounds the
  counter of names by the tasks that had their try, which its type needs.
* **Reporting**: `Attempts` counts the tries of the phase under way, `Going` says that
  a workflow which goes on has only good phases behind it. **Spoiling**: `Struck`
  says that whoever may still interrupt the runtime is a call of a run up to this
  one, and that a runtime that is struck was struck because a context ended.
* **Capping** is the hardest. `Ordered`: ids and texts number the rows alike, although
  an id may come back, so that the prune's choice by id is the oldest rows. `Spared`:
  as long as no two prunes overlapped, what one deletes leaves the newest. `Bounded`
  is about prunes that do overlap: each counts the rows, and later deletes what was
  too much *then*. There is an order of the prunes under way, that of their counts, in
  which each will leave no more rows than the cap, the writes that have still to
  count, and the prunes that counted after it (`Within`). The order is a witness in
  the invariant (`\E later`), for the model has no memory of it; a prune that counts
  comes last, one that ends is taken out.
* **Finding**: `Found` says that what a search without an index has chosen is still
  there, unless somebody deleted meanwhile. **Remembering**: `Holding` says what a
  process that is to write has in hand; `Uncrossed` that, unless two crossed, one
  process at most has the file in hand, with all that is to be kept in its copy, and
  that a scaffold about to be made is not there.

Assumptions are the named `ASSUME`s of the modules: workers are pairs of a
process and an agent, `Nobody` is none of them, the expiry and the costs are
natural numbers, the goroutines' names are distinct, at least one task and one
round, responses are sequences of frames over a finite set of numbers of calls,
the order of the servers lists each once, what is configured, and the tools
that are theirs, name only those, the globs of a rule map cover tools and paths and
the keys of the rules are among the globs, and the processes of a machine are
finitely many. TLC evaluates them in the runs.

**Only model-checked.** Liveness under fairness, which the prover does not reach:
`TasksEnd`, `CallsEnd`, `EverybodyEnds`, `NotedIsTold`, `RefreshEnds`,
`NobodyWaitsForEver`, `EveryJobEnds`.

---------------------------------------------------------------------------

## 8. Disagreements between the code and what is said of it

Two have a run whose trace shows them.

1. **Claims between processes** (`two_stores`). `store.go:2-4` and `195-197` say
   that a lock is created with `O_CREATE|O_EXCL` so that the file system decides.
   It is written with `os.WriteFile`: two processes that both found the symbol
   free both write it and both are granted.
2. **Feedback on a stale history** (`turn_judge`). An unmet verdict appends the
   feedback to the history from before the round, so the agent and the judge go
   on without the work of the rounds before (`turn.go:163`, against the spec of
   change 0010 and `turn.go:105`).

Seen in the models and not given a run:

* **edits that nobody notes**: `editedPath` reads the call's field `path`
  (`diagnostics.go:167`); write and edit name it `file_path` (`tool/write.go:33`,
  `tool/edit.go:39`). Unless the model adds a field that the tool ignores, no
  file is noted and no refresh is started, though `diagnostics.go:8-9` says that
  the agent should see the breakage it just caused without having to ask. The
  tests of the hook pass calls with a `path`;
* **truncated answers**: the reader puts its error into `errs` and closes `errs`
  and `frames`; the pump's select may take the closed frames first and return
  without having told the error (`sse.go:78`, `anthropic.go:109-121`,
  `openaicompat.go:98-111`). The consumer then has a truncated answer without an
  error, which `maxmode.go:102-104` says must not be judged as if it were
  complete: hence the hypothesis of `CleanMeansAll`;
* **contexts and blocked writes**: `client.go:19-21` says a hung server must never
  block a turn indefinitely; `Call` looks at its context only after its write
  (`stdio.go:222`), and a full pipe blocks it and everyone behind it;
* what the budget drops: the turn's history is what `Fit` kept (`turn.go:65`, `130`,
  `187`), so a message for which there was no room is gone from the caller's history
  for good and no checkpoint tells it, where `turn.go:174` says that durability
  precedes forgetting; hence `NoRoomFor` in `DurableFirst`;
* a crash, or a failed write, between the truncation and the write of
  `checkpoint.md` loses what earlier checkpoints told (`checkpoint.go:83`);
  `DurableFirst` speaks of the moment at which a turn ends;
* an abort that fails: `mergeAgent` does not look at the result of `git merge
  --abort` (`native.go:192`), so the merge it means to abort 'so the base branch is
  left clean' may stay under way, and the next merge is refused; and an abort after
  a merge that was refused ends a merge that somebody else has under way in the
  checkout;
* a failed release of a merged task: `Done` returns its error, and the fan-out
  reports a task as not merged whose commit has landed (`native.go:136`,
  `FreeFails`);
* a `git worktree add` that is killed half-way leaves what it had made, and the name
  stays blocked (`native.go:94-98`);
* locks after a failed commit: the orchestration spec of change 0013 says that
  locks shall be freed whether an agent succeeds or fails, and `Done` returns at
  once when `git add` or `git commit` fails (`native.go:112-123`);
  `coordinator_faults` reaches such states, which is why `QuietIsClean` and its
  theorem except them;
* conflicts between processes: `sub-1` of a second process takes the first one's
  locks for its own, cannot add the worktree and releases them; another claim of
  the symbol is granted and the merges conflict, where
  `orchestrate/coordinate.go:15-16` says conflicts are prevented at claim time
  (`MergeConflicts` with locks that have not expired);
* a consumer that leaves at an error event of the stream leaves pump and reader
  waiting until the context ends (`loop.go:98`), hence `Polite`;
* once the context has ended, an event in the middle may be dropped and later
  ones told (`anthropic.go:337-343`), hence `~cancelled` in `Prefix`;
* the OpenAI pump ignores error frames, and a body that ends without `[DONE]`
  counts as complete (`openaicompat.go:107-112`);
* a language server whose start ends after `Shutdown` is registered and never
  closed (`manager.go:106`), where `ports/lsp.go:41` says that Shutdown stops
  every server: `NoOrphan` counts the manager as its owner;
* `Close` sets the service to nil while a refresh uses it (`assemble.go:512`,
  `diagnostics.go:101`);
* a file asked for while its server starts is not asked for again
  (`manager.go:86`), hence `Unavailable` in `NotedIsTold`; a refresh reads what
  was published before its own text (`diagnostics.go:101`), so a fix may stay
  reported as a problem;

* a line of stdout that is not JSON stops the reader and not the transport
  (`stdio.go:127`): with `Quirks = {"garble"}` `CallsEnd` fails;
* a child of the server that keeps its stderr open holds up `cmd.Wait`, and with
  it the release of the waiters (`stdio.go:84`, `256`): with
  `Quirks = {"child"}` `CallsEnd` fails;
* a request of the server's own, numbered like a pending call, is delivered to
  that call as its response (`stdio.go:132`);
* a crash leaves the worktree of `sub-<i>`, and every later claim by that name
  fails until somebody removes it (`native.go:157`);
* a subagent's tools take relative paths to be relative to the process and not
  to its worktree (`runtime/fanout.go:116-121`).
* an assembly that fails after servers were started, or the store opened, closes
  neither (`assemble.go:315-335`), hence the exception in `EveryServerOwned`;
* a subprocess that never answers `initialize` or `tools/list` holds up the assembly
  for ever, under a context without an end (`mcp.go:103`, `108`), and one that hangs
  in a call the turn (`tui/model.go:225`), though `client.go:19-21` says that a hung
  server must never block a turn indefinitely; hence the exceptions in
  `NobodyWaitsForEver`;
* a language server that does not read holds up the refresh that tells it of a file,
  and with it every later message of its connection, under a context without an end
  (`lsp/client.go:211`, `218`); hence `[]Blocked(r)` in `NotedIsTold`;
* an HTTP server that restarts is asked on without a new handshake
  (`client.go:84`), hence `life` in `Handshake`;
* `/theme` with a name sends to the loop that runs it and never returns
  (`theme.go:188`), so the persistence behind it is never reached in the terminal;
* text of a reply that broke off is shown as the beginning of the next turn's
  (`model.go:284`), hence `cut` in `OwnText`;
* a process that has not yet written to memory finds nothing, whatever earlier
  sessions stored (`search.go:39`); with an index, rows that are gone may take the
  place of rows that are there (`search.go:95-131`);
* two prunes at once delete more than the excess (`store.go:291-330`);
* `MEMORY.md` that cannot be read is taken for absent and overwritten
  (`memo.go:61`);
* an interrupt that comes late strikes the next run of the same workflow
  (`jsworkflow.go:102`), and a second finding of a used id keeps a review open for
  good (`compose.go:257`, theorem `Twins`);
* `WithFTS`, `RebuildFTS`, the fallback embedder and the pruning of `MEMORY.md`
  exist and are used by no assembled session; the first three are in the models
  all the same.

---------------------------------------------------------------------------

## 9. What is assumed

* A lock file is small: its write lands whole or not at all after the
  truncation. The clock does not go backwards.
* `Acquire` visits the symbols in any order: more behaviours than the code has.
* git: `worktree add` refuses a path it has registered; a merge stops on two
  changes of one symbol, refuses to start during another one and over a dirty
  file; `merge --abort`, when it works, ends whatever merge is under way. Any command
  may fail or be killed and leave half of its work. Two changes of
  *different* symbols of one file are taken to merge cleanly.
* A subagent edits only the symbols it was given, in its worktree or, as a
  fault, in the shared checkout.
* MCP: requests are distinct, each goroutine calls once (the transport keeps
  nothing of a finished call), and a write is one step when there is room.
* Streams: a frame ends with a blank line, so a partial last frame is no JSON and
  is ignored like one that never came; a failed POST is an error before there is
  a stream, and is left out. A text frame is a delta of a block that was opened; one of
  another block is dropped without a trace (`anthropic.go:182-184`), as a fragment of
  a call that was not opened is.
* Language servers: the file is read and written in one step; requests other than
  `publishDiagnostics` are ignored, as the code does; the jsonrpc2 library
  delivers in order or fails.
* Turn: the tokenizer is a cost per message; the sections of the system prompt
  cost the same each turn; memory and skills may add any of a few sequences of
  costs; the front-end passes back the history it was given. What the summary
  says is left out: a checkpoint *tells* the messages of the history it was
  made of.
* Program: a front-end's send returns when the loop has taken it or has ended, as
  bubbletea's does; a slash command takes no time that matters but the ones
  modelled; a request to an HTTP server is one step and its timeout is an error.
* Orchestrate: a git command is one step and may fail before, in the middle or
  after; a phase of Go looks at its context only between attempts.
* Recall: one SQL statement, or one transaction, is one step; SQLite serialises
  writers; the write of a file empties it first.

## 10. What is not modelled, and why

* `Holder` of the lock store: it only reads, and only tests call it.
* The marshalling of requests (`provider/*`): text in, text out. Which adapter is
  chosen, and when none is, is `ProviderFailure` of `Session`.
* Of language servers: positions, severities, several extensions (they share
  nothing but the manager's lock), the rendering of the prompt's section.
* Of the assembly: the parsing of JSON, the text of instructions, the theme and
  its saving; slash commands given to a single turn without a terminal.
* Of the turn: what `persist` writes to memory (as a write of `MemoryStore` it is
  in `Recall`, not in `Turn`), the text of summaries, the sections' headers.
* Of the memory files: the pruning of `MEMORY.md` and `WriteProgress`, which
  nothing calls; the text of facts and scaffolds.
* What a subagent, a phase or a script computes.
* The wording of errors, reports and prompts; logging; palettes and layout.
* The task tree's parser and the tokenizer: text to text; `Turn` has a cost per
  message.
* The grit backend: an external binary whose behaviour is not in the
  repository.
* Tools, skills, symbols, diff, ports: single calls without state, or
  interfaces.
