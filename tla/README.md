# A TLA+ model of Vibe OJ

Vibe OJ is a small online judge: one C++ process that serves pages and a JSON
API with cpp-httplib, keeps users, problems and test cases in MySQL, keeps
sessions in its own memory, and judges a submission inside the request that
brings it, by compiling it and running the program on each test case under
resource limits and seccomp. Every request is served by a thread of the
library's pool, so that all of the code below runs in several threads at once.

This directory holds TLA+ modules of it, TLC configurations that check them on
small instances, and proofs for TLAPS. Paths are relative to the repository's
root, which is `src/` in `PROJECT.json`; there, `map` names for every definition
the lines it stands for, and `hazards` lists what can go wrong, with the
properties that watch it.

## 1. Inventory

| component | source | state | operations |
|---|---|---|---|
| Judge | `judge.cc`, `judge.h`, `config.h` | a temporary directory, pipes and at most one child per thread; nothing shared but the process itself | `compile_and_judge` = `do_compile` (`run_cmd`) and `judge_single` per case |
| Sessions | `auth.cc`, `auth.h`, handlers of `server.cc` | `sessions`, a map from token to `Session`, behind `sessions_mutex` | `create_session`, `get_session`, `destroy_session`, the `CHECK_...` macros |
| Problem catalogue | `db.cc`, handlers of `server.cc` | the tables `problems` and `test_cases` | list, show, create, edit, delete; add, list, delete test cases; submit |
| Database connection | `db.cc` | one `MYSQL` handle for all threads, without a lock | `query`, `execute`: `mysql_query`, then `mysql_store_result` |
| Accounts | `db.cc`, `auth.cc`, handlers | the table `users`; the static buffer of `crypt()` | register, login, the administrator of `main` |
| Seeding | `main` of `server.cc` | the tables | three problems, those that are not there yet, before `listen` |
| HTTP server | `main` of `server.cc`, cpp-httplib | the thread pool and its queue | `listen` |
| Frontend | `static/app.js`, `templates/` | the submit button, the card of the verdict, the requests under way | submit by click or Ctrl+Enter, load, edit forms |
| Page templates | `render.cc`, `templates/` | none | `replace_all`, `render_page` |
| Markdown | `md.cc` | none | `md_to_html` |
| Logging | `log.cc` | a file behind a mutex | `log_msg` |
| Configuration | `config.h` | constants | none |

How they interact: a handler calls `get_session` and keeps the pointer it
returns, reads and writes tables through the one `Database`, and, for a
submission, calls `compile_and_judge` with a copy of the problem's cases. The
judge forks; a fork copies every descriptor of the process, those of the other
threads included. `main` connects, sees to the administrator and the first
problems, and only then listens. Nothing calls back, and nothing but the tables
survives a restart.

What is hard in each, and what makes it correct:

- **Judge.** Threads share one process: a child inherits the pipe ends other
  threads have open, and after a failed `fork` the pid -1 makes `waitpid` and
  `kill` act on the children of all of them. The timeouts race the ends of the
  children, and a program may leave a process behind that holds what it held. Correct is: *accepted* only what solves every case; TLE only when
  late; the verdict of the first case that is not accepted; nothing left
  behind; nobody waits for a write end that no exit will close; every request
  is answered, unless a compiler hangs or a process is left behind.
- **Sessions.** The mutex protects the map, not the entry a handler goes on
  reading. Correct is: a handler reads the session of its own cookie; only
  administrators pass `CHECK_ADMIN`; the table and the heap agree.
- **Catalogue and seeding.** A handler is several statements, `main` is several
  more, and there are no transactions; the process may be killed between any
  two. Correct is: no test case without its problem; nothing deleted comes back;
  a submission whose result nobody else took is judged on the cases of its own
  problem in their order; when
  the server listens the first problems are there, once.
- **Connection and accounts.** The two calls of `query()` interleave with those
  of other threads, and may overlap them in time: a result may be taken by another
  thread or lost with the connection, every reader takes a lost result for "no row",
  and once calls have overlapped nothing that the handle returns can be relied on.
  `crypt()` works in memory all threads share. Correct is, whatever overlaps: a name
  has one row, and nobody but `admin` is an administrator; and as long as nothing
  does: a login opens only the account of its name and password, a registration
  stores a hash of its own password.
- **Server and frontend.** A submission occupies a thread until it is judged,
  answers may be lost or come in another order, and Ctrl+Enter does not look at the
  button. Correct is: "judging" is shown only while an answer is to come, the
  verdict shown is that of the last submission, and every request ends unless all threads
  are occupied by hanging compilations.
- **Templates, Markdown, small texts.** Placeholders are substituted one after
  the other in values already substituted; the Markdown loop carries two flags over
  the lines; a NUL ends what is read of an output; a cookie's part without `=`
  swallows the next. Correct is: texts arrive whole, once and in their place, tags are nested.

## 2. The modules

| module | models | composed with |
|---|---|---|
| `Submissions` | what the judge can tell of a submission | |
| `Grading` | abstract specification: one step gives a verdict | extends `Submissions` |
| `Processes` | children, wait statuses, holders of write ends | |
| `Judge` | `compile_and_judge` by several threads | extends `Submissions`, `Processes`; implements `Grading` |
| `Sessions` | the session table and the handlers' pointers | |
| `Connection` | the one `MYSQL` handle | |
| `Catalogue` | the two tables and their handlers | extends `Connection` |
| `Seeding` | `main` up to `listen`, crashes and restarts | extends `Catalogue`, whose handlers run while it serves |
| `Accounts` | `users`, registration, login, `crypt()` | extends `Connection` |
| `Editor` | the editor page in several tabs and the server's thread pool | |
| `Markdown` | `md_to_html` | |
| `Pages` | `replace_all` and the pages with texts of users | |
| `Texts` | the functions from text to text, one call per step | extends `Markdown`, `Pages` |
| `MCJudge`, `MCSessions`, `MCCatalogue`, `MCAccounts`, `MCTexts`, `MCEditor` | instances for TLC | |
| `Induction` | lemmas: induction over numbers, and functions that are defined by recursion exist | |
| `JudgeProofs` | type invariant, life of a child, who holds the pipes, what a request leaves behind, whose child is taken, when TLE is given | extends `Judge` |
| `JudgeVerdictProofs` | an accepted submission is right; the refinement of `Grading`; the verdicts of an idle machine | extends `JudgeProofs` |
| `SessionsProofs`, `AccountsProofs`, `EditorProofs` | the invariants of the other state machines | extend `Sessions`, `Accounts`, `Editor` |
| `CatalogueProofs` | the same for the catalogue | extends `Seeding`, `Induction` |
| `TextsProofs` | what the functions from text to text compute, for texts of any length | extends `Texts`, `Induction` |

Definitions marked "Mutant" in a module are plausible mistakes in the definition
that follows them. `PROJECT.json` says which property refutes each; nothing else
uses them.

What composes in the program and is checked apart meets only at narrow interfaces:
the judge sees neither sessions nor tables; a handler sees of the judge that
it takes time (`JudgeCopy` of `Catalogue`, `Answer` of `Editor`); `Sessions`
abstracts a page's work to the reads through its pointer. `Catalogue` and
`Accounts` are both over `Connection`, each with the other's statements as statements
of another table (`OtherRow`, the request that writes). Only `main` takes a
statement and its result as one step, since nobody else uses the connection yet.

### Judge

`Processes` has two variables. `proc[j]` is the child of thread j: none, the
compiler, a program, or a zombie with its wait status. `writers[<<j, e>>]` is
the set of processes that hold the write end of pipe `e` of thread `j` (`cmd`,
the compiler's output; `in` and `out` of a program). `Inherited` is `fork` with
pipes that are opened without `O_CLOEXEC`: the child gets every end the server
has. A read returns 0, and a loop over `read` ends, when the set is empty
(`Closed`). `Awaited` is the meaning of the pid given to `waitpid`. `Left` stands for
all processes that programs have left behind: a clone holds what its parent holds
(`Clone`), is no child of the server, and lets go of an end when it likes, or never (`LetGo`).

`Judge` has per thread the step `pc`, the submission `sub`, the case `idx`
(`i + 1` of the loop), `noPid` (the last fork returned -1), `got` and `how` (what
`waitpid` returned), `clock` and `cpu` in ticks, `bin` and `tmp` for what is in
the file system, and `answer`, the `JudgeResult`. One action is the code between
two calls that another thread, a child or the clock may see:

| action | code |
|---|---|
| `Submit` | a handler calls `compile_and_judge` |
| `MakeTempDir`, `WriteSource` | `compile_and_judge` up to line 298, with both early returns |
| `OpenCommandPipe`, `ForkCompiler`, `CloseCommandPipe` | `run_cmd` 37-52 |
| `WaitCompiler`, `ReadCommand` | its loop: `waitpid`, then the blocking read, then the clock |
| `StatProgram` | `do_compile` looks for the binary |
| `OpenPipes`, `ForkProgram`, `CloseChildEnds`, `FeedInput` | `judge_single` 187-209 |
| `PollProgram`, `CheckElapsed` | its loop: `waitpid`, then the clock, then the kill |
| `Drain` | the output is read, the verdict is taken, and the loop over the cases goes on or stops |
| `RemoveTempDir` | `rm_temp_dir` and the return |
| `CompilerExit`, `ProgramExit`, `KernelLimit`, `Tick` | the children, `RLIMIT_CPU`, and time |
| `ProgramClone`, `LeftCloses` | a program leaves a process behind: `clone` is an allowed call (`judge.cc` 117), and `RLIMIT_NPROC` does not bind a process of root, as the server must be for its `chroot` |

Abstracted: a program is a record (does it read its input to the end, does it
print more than a pipe holds, is the output right, may it clone itself, how does it end), and the
text of sources, inputs and outputs is gone. The list of allowed system calls is
left out: a program that seccomp kills ends by a signal like any that faults
(`fault`, RE). `Drain` reads and judges in one step, since no other process can
tell the two apart. Inputs are `TEXT` columns of at most 65535 bytes, so
that writing one to a pipe never blocks; cpp-httplib ignores `SIGPIPE`, so that
writing to a program that is gone has no effect. Undefined behaviour: with pid
-1 and no child at all `waitpid` returns -1, which *equals* pid, and the status
is read uninitialized; `PollProgram` then takes any wait status.

`Grading` says what the judge promises without any of this: a request is
answered in one step with a verdict that the submission explains. TLE is always
among the verdicts allowed, because a loaded machine may keep any program
waiting; AC is allowed only when the program solves its case. `ImplementsGrading`
is the refinement, with `phase` and `answer` mapped from `pc` and `answer`.

### Sessions

`store` is the map from token to the node of the heap its entry occupies; `heap`
and `live` say what a node holds and whether it is allocated. A freed node
keeps its bytes, or not, until it is allocated again (`Deref`). `issued`
is history: what the login of a token stored. `Lookup` is `get_session`
under the mutex; `CheckRole`, `Render` and `LogLogout` read through the pointer
afterwards, without it. `DestroySession` erases by token, whatever the pointer
says. `SetRole` is the SQL that `DEPLOY.md` tells an operator to run.

Each token is drawn once. A token has 32 hexadecimal digits, 128 bits, but the generator
of a thread that draws it has a seed of 32 bits (`auth.cc` 13, 37); that two are equal is left out.
`Hasty` is the set of cookies whose clients send a logout while another request of theirs is
being served; the others wait. It is an assumption about clients, not about the code. The two
properties about pointers exempt hasty cookies and no others: what a hasty client
does harms only itself, except through `NoForeignSession` (section 4).

### Catalogue and Seeding

`problems[p]` is the text of a row, or `NoText`; `cases[c]` is its problem and
position. The AUTO_INCREMENT counters are `newProblem` and `newCase`; the foreign key
and its `ON DELETE CASCADE` are those of `DEPLOY.md`. Each statement of a handler is
two steps over `Connection`: `mysql_query` (`Select`, `Write`), after which `sent[w]`
holds, and `mysql_store_result` (`ListProblems`, `GetProblem`, `GetTestCases`,
`DropResult`). Either may fail, and the second may return the rows of another handler's
SELECT or none: `Returned` is what it may return, and a handler that expects test
cases and finds rows of another table ends with an exception (`stoi`). MySQL
runs a statement alone. A row whose difficulty is outside of the `ENUM` (`OddText`),
or whose problem is not there, is refused (`Refused`), and the handler answers 400.
`Arrive` takes every request and the checks before the first statement. The id that
`mysql_insert_id` returns to a handler only goes into its answer, and is left out.

`Seeding` puts `main` before it: for each problem of `Seeds` it looks for the title
(`Seek`), inserts the problem and then each case, in statements of their own
(`InsertSeed`, `InsertSeedCase`), and then listens. `Crash` ends the process in any state,
between two statements of `main` or of handlers, and starts it again: the
tables and counters stay, everything else is reset.

### Connection and Accounts

`Connection` keeps whether the handle is connected (`up`), the result that
`mysql_query` has left for the next `mysql_store_result` and who asked
for it (`waiting`), and, as history, whose result has gone elsewhere (`lost`).
`mysql_query` is refused while a result waits; `mysql_store_result` returns
whatever waits, or NULL. Nothing reconnects.

`mysql_query` is a round trip to the server, on a handle that nothing locks. Two
threads whose next step is a call may both be in it: `Overlap`, after which `shaken`
holds until the process ends. That is a data race inside the library, and the model takes
its outcome as any of these: a call fails or succeeds whatever MySQL has done, a
result is anyone's row, or none. A row of the wrong table has fewer columns than the
code reads; what it then finds there is one more arbitrary value. Two things are
left out: that the process crashes (which is a `Crash`, at a moment of its own), and
that two statements mix on the wire into one that neither thread wrote: a statement
reaches MySQL whole and once, or not at all. What is proved of the tables holds
through overlaps; what is proved of answers holds until the first one, and says so
(`~shaken =>`).

`Accounts` runs the handlers of `/register` and `/login` over it, with two more
kinds of requests that stand for all other handlers: one that reads rows and one
that writes. `crypt()` is three steps: it begins, it ends with its
result in the static buffer, and the caller copies it. Two calls that overlap spoil
each other: the result may be right, or the other's, or `Garbage`. `spoilt` and
`found` are history. `StartServer` is `main` up to the administrator; `Crash` keeps the table.

### Editor

Per tab: the document (`page`), `_ojProblemId` (`known`), the button (`disabled`), the
card (`shown`); the requests whose promise is pending (`awaited`). The server is a
queue and `serving`, at most `Threads` requests, each until its handler returns.
A submission may hang: then no `Answer` comes. `Load` drops what the page awaited,
and the server does not hear of it; `Lose` is a request the browser gives up;
`Receive` takes the answers in any order. `Hotkey` is Ctrl+Enter, which works once
`_ojProblemId` is set and does not look at the button. `latest` and `hurried` are history.

### Texts

`Texts` is a state machine only in form: a step calls one function
with one input, and the properties relate `given` and `result`. `GetCookie` is
`get_cookie`; `Compare` is the reading of an output and the comparison without last
blanks; `MdToHtml` is the loop over lines with its flags `code` and `list`
and the bold text of a paragraph; `DetailPage`, `FormPage`, `CasesPage` and `ListPage`
substitute placeholders in the order of `std::map`, through the templates and
`render_page`. A statement without Markdown stands for the description of a problem's page
(`Described`). Texts are short sequences over the few characters
the functions tell apart.

## 3. The runs

`tlc -workers 2 -config <module>_<name>.cfg <module>`, where the run `judge_one` is
`MCJudge_one.cfg` of `MCJudge`, and so on.

| run | instance | shows |
|---|---|---|
| `judge_one` | one thread, two cases, twelve programs, any load; compilers that hang, processes left behind; `mkdtemp`, `open` and `pipe` may fail | `TypeOK`; `CleanExit`: every return leaves no child, no directory, no write end (but one, see below); `BlockedOnLive`; `ImplementsGrading`; `TleMeansLate` |
| `judge_fork` | two threads that inherit each other's ends, `fork` may fail, fair scheduling | `AcSound`, `CleanExit` and `BlockedOnLive` although one thread takes and kills the children of the other; `OnlyOwnReap`: only after a failed fork; `Answered`: every request ends |
| `judge_hang` | one thread, a compiler that hangs, fair scheduling | finding: `CompileTimeoutEnds` fails |
| `judge_crowd` | two threads, idle machine, right programs | finding: `CorrectAccepted` fails |
| `sessions_turns` | two workers, two users, three tokens of which one is hasty, two nodes | `TypeOK`, `StoreSound`, `OwnSessionOnly`, `AdminByLogin` |
| `sessions_overlap` | the same, all hasty | finding: `NoForeignSession` fails |
| `catalogue_admins` | `main` and two workers, a seed with two cases, crashes at any moment, a connection that breaks and on which calls overlap | `TypeInvariant`, `NoOrphans`, `JudgedInOrder`, `SeededOnce`, `StaysDeleted`, `SeedsServed` |
| `catalogue_mixed` | two workers, nothing to seed | finding: `OwnCasesOnly` fails |
| `accounts_pair` | two workers, two names, two passwords, restarts, a connection that breaks and on which calls overlap | `TypeOK`, `NameOnce`, `AdminThere`, `LoginRight`, `RegisterRight` |
| `accounts_crypt` | the same, with four salts | finding: `HashVerifies` fails |
| `texts_inputs` | all short inputs of the pure functions | `CookieRight`, `ComparedWhole`, `Nested`, `Escaped`, `Kept`, `Placed` |
| `editor_tabs` | two tabs, two threads, three requests under way, one compilation that hangs | `TypeOK`, `PendingAwaited`, `ButtonFollows`, `ShownIsLatest`, `Served` |

A process that a program left behind is no child of the server, and `CleanExit` says
nothing of it. The exception of `CleanExit` is a leak in the code: when the second `pipe()` of
`judge_single` fails, the two descriptors of the first stay open (line 190).

**Bounds.** Two threads are enough for what the judge's threads do to each
other: an inherited end, a stolen wait status and a kill of all children each
take one thread that does it and one that suffers. Two cases let the loop
go on, stop at the first and stop at the last; one case is enough where `fork`
fails, since nothing is carried from a case to the next but the index.
Limits are one or two ticks, `CpuSoft < CpuHard` so that the two signals
differ, and clocks stop counting one tick past the larger limit, beyond which no
comparison changes (`MaxClock`). Each thread submits again and again.
For sessions, two nodes and three tokens let a freed node be reused by another
user's login while the old pointer is held; `RoomToLogin` keeps logins within
the tokens and nodes there are. For the catalogue, `RoomFor` stops the handlers'
inserts, and the guards of `InsertSeed` and `InsertSeedCase` those of `main`, at two
problems and two cases: room for a seed with both its cases and another problem, or for
one that a crash cut short and handlers fill, with cases whose positions and ids are in
different orders, or with a case for each of two problems. For
accounts, `admin` and another name, its password and another, and two salts: one for each
hash that the table can hold. A registration waits while no salt is free (`NewSalt`) and
goes on when the other's hash is gone; hashes that overlap share `Garbage` and need none.
The run that looks for a spoilt hash has four. For the
editor, `Ids` bounds the requests under way in the browser and the server
together, and `MostHanging` is one less than the threads, which is the condition of
`Served`. For texts, paragraphs of up to seven characters hold two pairs of stars and
something inside, before and after; five lines hold a list, a fence and what follows; headers of six
characters hold two parts; outputs of four and two characters hold blanks, a NUL
and a boundary between reads. Symmetry is used for safety only.

**Deadlock** is checked in every run. None stops: a new request
can always arrive, or a crash come.

**Fairness.** `FairSpec` of `Judge`: weak fairness of each thread, each child
and the clock. The kernel schedules every runnable thread and process, and the
thread's loops have no other way to wait than a read, `nanosleep` and `waitpid`.
Nothing is assumed about *how soon*, and nothing about the order. A compiler that
hangs, and a program that blocks or spins, have no step of their own that fairness could
force; without fairness of `Tick` no timeout would ever pass. `Spec` of `Editor`: weak fairness of
the pool taking a request, of the answer to each request that does not hang, and of
its arrival at the page. The user, reloads and lost requests are under no fairness.
That the answer comes is what `Answered` says of the judge.

**Idle machine** (`Prompt`). Time passes only when nothing else can happen.
That is how the code's timeouts are meant, and the only way to state that a
given program gets a given verdict: `CorrectAccepted` and the theorems `IdleIsExact` and
`IdleAccepts` are about it, everything else holds without.

## 4. Findings

1. **Concurrent submissions time out** (`judge_crowd`, `judge.cc:190`). A child
   forked by thread A between `pipe()` and `close()` of thread B keeps the
   write end of B's input pipe. When the same happens the other way round, two right
   programs that read to the end of their input wait for each other, and both
   get TLE.
2. **A pointer outlives its session** (`sessions_overlap`, `auth.cc:45`).
   `get_session` returns a pointer into the map; a logout frees the
   entry, a login reuses the memory, and the first request goes on with the other
   user's name and role.
3. **Hashes that verify nothing** (`accounts_crypt`, `auth.cc:23`). Two calls of
   `crypt()` overlap, and a registration stores what their static buffer then holds.
   `LoginRight` and `RegisterRight` say what remains: a request whose call ran alone is
   served right.
4. **Another problem's cases** (`catalogue_mixed`, `db.cc:36`). `mysql_query` and
   `mysql_store_result` are two calls on a handle that all threads share. `query()`
   calls both after a write too, so a write that has been sent takes and drops the result
   that a submission's SELECT leaves meanwhile; the handle is free again, another
   submission sends its SELECT, and the first stores those rows: it is judged on the test
   cases of another problem. No two calls need to overlap in time. The plan of web tests (228) wants concurrent
   submissions judged by themselves, and `SPEC.md` 459 takes threads to need no care.
   `JudgedInOrder` says what remains: whose result nobody took, and as long as no calls
   have overlapped, is judged on its own cases.
5. **A compile timeout that never comes** (`judge_hang`, `judge.cc:57`). `run_cmd` reads
   the compiler's output to its end before it looks at the clock. A compiler that hangs
   keeps its output open, and the thread waits for ever; the 30 s of `SPEC.md` 256 and of
   the plan of web tests (259) never stop it.

Disagreements between documents and code that the models have as the code does
them, without a run of their own:

- A process that a program leaves behind holds the output open, and the read to its end
  (`judge.cc` 233) has no timeout: the request waits for that process, although `SPEC.md` 203
  limits the real time to 2000 ms and 494 says that `fork` fails in the sandbox. `Answered`
  therefore assumes programs that leave nothing behind, and `BlockedOnLive` names what a reader waits for.
- After a failed fork `waitpid(-1)` takes the status of another thread's child, and
  that thread reports TLE at once (`judge.cc` 214; `API.md` 253). `TleIsLate` is proved from the
  assumption that `fork` does not fail. `AcSound` holds even so.
- The id in the answer to a create is `mysql_insert_id`, a call of its own on
  the shared connection: it may be 0 or another row's (`db.cc` 102, `API.md` 314).
- A right program that prints more than 64 KB gets TLE, since the output is read
  only after the end, where `SPEC.md` 206 allows 1 MB. Memory beyond the limit
  gives RE, not MLE, because `RLIMIT_AS` fails the allocation (`SPEC.md` 493, and the plan of
  web tests). These are the programs that `ExactVerdict` calls `Disputed`, and says nothing of. The CPU
  limit is one second, not 500 ms (`SPEC.md` 202, 492); ticks do not tell the two apart.
- A session never expires (`SPEC.md` 480).
- An edit of a problem, or a delete of a test case, that is not there is
  answered with success (`API.md` 492 says 404). A submission to a problem without cases is
  answered with status 200 and no verdict, and the page shows "undefined".
- An output that is not UTF-8 makes `dump()` throw: the submission is answered with 400.
- In a statement, bold text that is left open loses its last character, empty lines of
  code blocks disappear, and headings and items are not escaped (`md.cc` 29-83; the
  exceptions of `Kept` and `Escaped`). A text that names a placeholder that is replaced later is changed, on
  pages and in the form that saves it (the exception of `Placed`).

## 5. What is proved

TLAPS checks every proof (`tlapm <module>.tla`). Every invariant and action property of
the passing runs is proved, for the constants'
whole range and under the conditions the properties state. The proofs hold for any number of
threads, cases, workers, users, tokens, nodes, names, tabs and seeds, texts of any length, any
programs, any limits, and any choice of the calls that may fail. They rest on the named assumptions
about constants in the modules, all of which TLC evaluates in the runs, and
on the few extra ones named here.

**Judge**

- `JudgeProofs!TypeCorrect`. `TypeOK` is not inductive: `idx + 1`
  stays within `MaxCases` only because the thread is at a case of its
  submission (`AtCase`), and that at least one case exists must be remembered from the
  first step to the last (`HasCases`). The invariant `TypeInv` adds `ChildInv`, which
  the other proofs need: a child exists only between its fork and the `waitpid`
  that takes it, and never after a fork that failed.
- `JudgeProofs!BlockedOnLiveChildren`. The
  invariant `HoldInv` says who holds what: the dead hold nothing, the server holds the end it
  reads only before its `close`, and a compiler holds the end of its own
  thread's pipe. A reader therefore waits for living children, and for what programs left
  behind, only.
  Each kind of step (fork, close, exit, kill, open, reap, quiet) has a lemma.
- `JudgeProofs!NothingLeft` (`CleanExit`). `LeftInv` says where the
  directory and the binary exist (`Files`), that the write ends of the compiler's and
  the output pipe are the server's only up to the `close` (`Early`), and where an
  input end that is still held comes from (`InHeld`). Steps of other threads are `Apart`: they leave
  all of that alone, because the ends a fork copies go to children, never to the server.
- `JudgeProofs!OwnChildrenOnly` (`OnlyOwnReap`): an action property, from
  `TypeInv`, with one step per `waitpid` of the code.
- `JudgeProofs!TleIsLate` (`TleMeansLate`), assuming that `fork` does not fail: `LateInv`
  says that a thread that polls still has its own child, so that `lost` never
  happens, and that a kill was preceded by an elapsed limit.
- `JudgeVerdictProofs!AcIsSound`. AC at the end rests on
  every earlier case and on the wait status the thread holds; `AcInv` remembers
  both. The steps of *other* threads matter only if they touch this
  thread's child, and then they kill it or take it (`Same`, `Frame`): a wait
  status 0 is never made by anybody but the program. With pid -1 there is no
  child, and the output is empty. This is proved from `~BlankExpected`, which
  is part of the property: when the expected output of a case is blank, a program that
  never started may be accepted, as the code does.
- `JudgeVerdictProofs!GradesAsPromised` (`ImplementsGrading`), assuming that `fork` does not
  fail: initial states map to initial states, `Submit` to `Ask`, the step to `done` to `Grade`, every
  other step to a stutter. `GradeInv` carries what `Grade` needs: a program exists
  only if it compiled (`Built`), the cases so far could be accepted and a final answer is
  allowed (`Judged`), and a wait status is one the program at hand explains (`Explained`). With
  a failed fork the refinement is false: a child that another thread kills ends with a
  status its own program does not explain.
- `JudgeVerdictProofs!IdleIsExact` (`ExactVerdict`), from four assumptions: no call fails, time passes
  only when nothing else can happen, the hard CPU limit is not above the real one
  (both are two seconds, `judge.cc` 144 and `config.h` 12), and there is one thread or no program reads its input: the
  condition under which no child keeps another's input open (finding 1). It says nothing of a submission
  with a `Disputed` program. No run has this property, as its conditions exclude most of what the runs are
  for. The invariant
  has three parts more. `FedInv`: the server alone holds the input of a thread, so that a program that reads
  finds its end. `Timely`: the clock moves only for a program that does not end by itself, and
  the CPU time of one that ignores `SIGXCPU` keeps up with it. `EndedLate` and
  `Expecting`: so only what is to get TLE is killed, and the cases so far were accepted. `IdleAccepts`
  concludes that `CorrectAccepted`, which `judge_crowd` refutes for two threads, holds there
  for programs that print no more than a pipe holds: what the two theorems leave out is what finding 1
  and the list in section 4 show to go wrong.

**Sessions**

- `TypeCorrect`, and `TableSound` (`StoreSound`): table and heap agree, without any assumption on clients.
- `OwnSession` and `AdminsOnly`: `OwnInv` says that the logout of a cookie that is not hasty
  is alone with it, so that a pointer in use is the table's entry of
  its own cookie, and that entry is what the login stored (by `TableSound`).

**Catalogue and Seeding**

- `DeletedStays`, `NoneOrphaned`, `SeededOnceHolds`. The invariant `Sound` has the types without
  the bounds on ids (`RowsOK`); what every handler's request can hold
  (`Asked`); that no handler runs before `listen` (`Alone`); that `main` inserts
  a seed only while no row has its title, and its cases only into the problem it made
  (`Seeded`); `NoOrphans`; and that a text only `main` writes is in one row at
  most (`TitleOnce`), from which `SeededOnce` follows by cardinality.
- `TypeCorrect` (`TypeInvariant`). The hard part is that the counters stay within
  their bounds: several handlers are between the check of the bound and the insert. `Bounded` counts
  them (`Cardinality` of the inserting handlers), with a lemma on how each step changes the count.
- `JudgedInTheirOrder` (`JudgedInOrder`). That ORDER BY has something to return is a lemma of its
  own: a set of rows with positions has a list in order, by induction on its size, the
  last row last (`InOrderLists`). `ListInv` is about the connection too, as long as no calls have overlapped:
  a result that waits is one that its reader has asked for and not taken (`Awaited`), of several
  readers only one still has its own to take (`Mine`), and a list that waits or is held stays in
  order while rows are deleted and added (`GoodList`), which needs that ids are never given twice
  (`Used`). A handler that is not in `lost` has therefore taken its own list. The theorem says nothing of
  the others, which `catalogue_mixed` shows to be judged on other cases, and nothing after an overlap.
- `SeedsAreServed` (`SeedsServed`). `SeedInv` says that the seeds before the one `main` is at are
  there, that the problem it is filling has exactly the cases inserted so far, at the
  positions from 0 on (`Numbered`), and that every other problem of this start is `Whole`.

**Accounts and Connection**

- `TypeCorrect`; `NamesAreOnce` and `AdminIsThere` from `TableInv`.
- `RegistrationIsRight` and `LoginIsRight`, as long as no calls on the connection have overlapped. `ConnInv` says that a
  handler about to store finds its own result unless it is in `lost`, and `AnswerInv` what each handler knows at each step (the row it took is
  the one its SELECT found unless lost; the buffer holds its own hash between
  the end of `crypt()` and the copy, unless spoilt; what is inserted is what was copied).

**Editor**

- `TypeCorrect`, and `PendingIsAwaited`, `ButtonIsRight`, `LatestIsShown` from `PageInv`, which
  adds to the first two properties that, without haste, at most one submission of a page
  is under way and that it is the last (`OneOut`).

**Texts**

The functions are loops, and so their models are recursive functions or folds. What such a function
computes for every input takes an induction. The module `Induction` states it on sets of numbers (a
set of numbers that holds 0 and the successor of each of its members is `Nat`;
a set has a least and a greatest member), where the provers can use it. It shows that a function
defined by recursion on the numbers up to n (`UpExists`), or by a scan whose value at a
place rests on later places (`ScanExists`), exists; a fold is such a function on the sets
`1..k`. The proofs then say in steps what each function does (`Parts`, `Fills`, `Scanned`, `Loop` and
so on), and the theorems rest on these steps. They assume `TextsAssumption`, the types of the
inputs: texts are sequences of characters, lines have a kind and a text.

- `OutputIsCompared` (`ComparedWhole`): without a NUL the output is the reads put together, in whatever
  pieces; stripping is unique, so that equal stripped texts are one text.
- `CookieIsRight` (`CookieRight`): the scan of a header moves from the beginning of one part to that of
  another (`CookieScan`). What it returns is the value of the part it stops at; and it stops
  at the first part of that name if every part before it has an `=`, by induction down from that
  part.
- `TagsAreNested` (`Nested`) and `RestIsEscaped` (`Escaped`): the invariant `Fine` of the loop says that the tags
  open so far are those that the two flags say, a list or a block of code and never both,
  and that every raw `<` is inside a heading or an item. What a line adds is `Balanced`
  (it leaves open what was open) and `Clean` (it holds no raw `<`), a list's or a fence's tag, or
  a heading or an item.
- `TextIsKept` (`Kept`): what is read of a text is what is read of its parts (`ReadableJoin`). The scan for
  bold text reads as its input does, except for the last character when the number
  of pairs of stars is odd (`BoldReads`, by induction down from the end of the paragraph; `CountStep`
  counts the pairs). Each line adds its own text (`LineReads`), where the flag of code is the parity of
  the fences so far.
- `ValuesArePlaced` (`Placed`): a template is slots with an `x` between them, and no placeholder reaches over
  an `x` (`PagedOnce`). So each round of `replace_all` fills the slots of its key and leaves the others,
  and after the k-th round the first k keys are filled (`FilledOnce`), if no value names a key that is replaced
  after it. That the templates have this form, with placeholders that differ, is a lemma for each page.

## 6. What is only model-checked

- `Answered` and `Served`: liveness under fairness is out of the prover's reach.
- The five violations, which are counterexamples.

## 7. What is not modelled

- Logging: one line under a mutex, with no effect on anything else.
- cpp-httplib (parsing, routes, static files, headers) and the MySQL client
  library are not in the repository; they are modelled as the code uses them. Of a data race in the
  client library the model has what section 2 says, and no more.
- `mysql_insert_id` in handlers: the id only goes into an answer.
- `escape()`: the texts it quotes are opaque in the models.
- The measured times and the memory of a `JudgeResult`, the wording of errors and pages, the list of
  system calls seccomp allows.
- Of the frontend: highlighting, formatting, toasts, and the forms that only post and
  redirect. Of the templates: the page that is rendered when `_base.html` cannot be
  read, and the pages without texts of users.
- Hazards without a property, each with its reason in `PROJECT.json`: the table of
  sessions only grows (`auth.cc` 56); of two edits of one problem the later one wins
  whole (`server.cc` 412); `std::stoi` and `dump()` throw (`server.cc` 426, 309), which changes
  one answer and no state.

## 8. What could come next

The plan of the project is done: judge, sessions, catalogue, seeding, connection, accounts, server
and editor, and the pure functions. One composition would be worth its
states on a larger machine: `Sessions` with `Accounts`, so that a
login that went wrong is followed into the session it opens. Among the proofs, the exact
verdict of several threads could be stated for `pipe2` with `O_CLOEXEC`, if the code
comes to use it.
