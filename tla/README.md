# Merchant in TLA+

Specifications, model-checking runs and proofs for Merchant, a server-authoritative
implementation of the board game Splendor: a pure rule engine
(`packages/rule-engine`), a command service with an in-memory registry
(`apps/game-server`, `packages/infra-firestore`), and a web client (`apps/web`).
Paths below are relative to the repository; `apply-command.ts` and the like are
short for the file of that name.

## The system

| part | state | operations | talks to |
|---|---|---|---|
| Rule engine, `packages/rule-engine` | none: `applyCommand` maps a game state and a command to the next state and its events | TAKE_TOKENS, RESERVE_CARD, BUY_CARD, END_TURN, each over the policies economy, card-market, nobles, scoring, turn | called by the command service |
| Game seeding, `local-game-seed.ts` | none | builds the first state from player ids, seed and catalogs | HTTP runtime, registry |
| Command service, `game-command.service.ts` | none of its own | `handle`: idempotency, version check, rule engine, persistence | registry, rule engine |
| Local registry, `local-game-registry.repo.ts` | snapshots, stored command successes, events, listeners | create, load, `persistCommandSuccess`, subscribe, publish | repositories, transaction runner, listeners |
| Repositories, `packages/infra-firestore/src/repositories` | a map each: snapshots, records, events | create/load/save, loadSuccess/saveSuccess, append/list | registry |
| Transaction runner, `game.transaction.ts` | `#locks`: game to the tail of its promise chain | `run` | registry |
| Gateway and dispatcher | none | compares actor and user, forwards to `handle` | runtime, service |
| Local runtime, `local-server.ts` | subscriptions of each socket | HTTP routes, SUBSCRIBE_GAME, UNSUBSCRIBE_GAME, close, start, stop | gateway, query service, registry |
| Catalogs, `card.catalog.ts`, `noble.catalog.ts`, `setup.catalog.ts` | none: data | 90 cards, 10 nobles, setup by number of players | seeding, rule engine |
| Envelope checks, `validate-command.ts`, and the checks of route and gateway | none | refuse a command by its shape, its ids, its actor | runtime, gateway, service |
| Web client, `game-client.ts` | a socket and the payloads queued until it opens | connect, send, close, HTTP calls | HTTP and WebSocket of the runtime |
| Game screen, `GameScreenClient.tsx` | the game state it shows, its socket, the overlays' flags | load, subscribe, send a command, take over snapshots and answers, leave | web client |
| Runtime console, `LocalRuntimeConsole.tsx` | a socket handle, active game, shown game, label, user | connect, create, join, send, change user | web client |
| Login, lobby, victory | user id, requests under way, the page shown | log in, create, join, follow links | web client |
| Overlays, `useDialogAccessibility.ts` and the four components that use or open them | focus, key listeners, inert background | open, close, Tab, Escape | game screen |

A command travels client -> HTTP runtime -> gateway -> dispatcher -> `handle`. `handle`
looks up the idempotency key, loads the game, compares versions, calls the rule engine and
hands the result to a transaction of the registry; the registry publishes the update to its
listeners, one per subscribed socket. There is no durable storage: a restart of the server
forgets every game, so crash recovery is not a behaviour of this code. What can be lost is a
connection or an answer, and that is modelled where the code meets it.

**What is hard here.** The rules keep several redundant books (wallets and bank, cards in
market, reserves and purchases, bonuses and score beside the cards they come from, the
deck recomputed from all of them), which must agree after any sequence of commands. The
end of the game is a small protocol over several turns and players. In the server, `handle`
reads before an await what it relies on after it, the lock is a chain of promises whose
order is decided by microtasks, three stores are written one after the other, and updates
are published outside the lock. At the edge, subscriptions and closings overlap with
updates and with other messages of the same chunk, stop waits for what only clients can end, and a client receives answers and snapshots on two connections. In the pages, callbacks of
sockets, answers and renders outlive the component or the handle they were made for.
`PROJECT.json` lists each hazard at its line with the properties that cover it.

**What makes each part correct.** Rules: tokens and cards are conserved, limits hold,
derived books agree with their sources, the market is refilled, the final round starts once
and gives everybody else one more turn, the winners are the unbeaten players. Log: it is
numbered without gaps and tells what happened. Runner: one operation per game at a time, in
order, each one comes to an end, no lock stays behind. Service: a key is applied at most
once, versions grow, no update is lost, stores, answers and published updates agree, every
command is answered. Runtime: a subscriber misses no update and is told none twice, a closed
socket holds no listener, what a socket asked for is followed, stop leaves nothing and ends unless a
client holds an HTTP connection. Admission: only well-formed commands
of the current player change a game, and games start as the rules assume. Client: a screen
that watches ends up with the newest state, one that is gone has no socket, a command sent
again is not applied again, the label of the console is not wrong, a late answer moves
nobody into a game that does not exist, and focus and listeners belong to the open dialog.

## Modules

| module | models | built on |
|---|---|---|
| `Economy` | `economy.policy.ts`: taking, returning and paying tokens, as operators | |
| `RuleEngine` | `apply-command.ts` with the card-market, nobles, scoring and turn policies and the first state of `local-game-seed.ts` | `Economy` |
| `GameHistory` | `RuleEngine` with the events of every command, and a replay that reads them back | `RuleEngine` |
| `GameLock` | the promise of the transaction runner: a first-come, first-served lock per game (abstract) | |
| `TransactionRunner` | `game.transaction.ts`, microtask by microtask; implements `GameLock` | instance of `GameLock` |
| `CommandService` | `handle`, the registry and the repositories, await by await; implements `TransactionRunner` | instances of `TransactionRunner` |
| `Runtime` | `local-server.ts`: sockets, SUBSCRIBE_GAME and UNSUBSCRIBE_GAME, publication, start and stop, with `subscribe` and `#publish` of the registry | |
| `GameClient` | `game-client.ts`: the client's end of a socket, connected to `Runtime` | `Runtime` |
| `GameScreen` | several game screens, their loads, sockets and commands, against one server | `GameClient` |
| `Console` | the local runtime console | `GameClient` |
| `Catalog` | the cards, nobles and setups, as data | |
| `Envelope` | the checks of a body or a command, from JSON of any shape to a refusal or a command; creation of a game | `Catalog`, `Economy` |
| `Admission` | one game and every request for it, through route, gateway, service and rules | `Envelope` |
| `Lobby` | a tab on its way to a game, the registry's games and other clients | `Envelope`, instance of `RuleEngine` |
| `Dialog` | the overlays of the game screen under re-rendering | |
| `Subsequences` | the elements of a sequence that are in a set, as a recursive function, so that proofs can use it | |
| `GameTheorems` | proofs about the operators of the rules, the game and its log | `GameHistory` |
| `RunnerTheorems`, `ServiceTheorems`, `RuntimeTheorems` | proofs about the server | `TransactionRunner`, `CommandService`, `Runtime` |
| `ClientTheorems` | proofs about the game screens and the console, over those about the runtime | `GameScreen`, `Console`, `RuntimeTheorems` |
| `PageTheorems` | proofs about the way to a game, the admission of commands and the overlays | `Lobby`, `Admission`, `Dialog` |
| `FoldTheorems`, `SubsequenceTheorems` | lemmas about folds over sets and sequences and about `Kept` | `Subsequences` |
| `MC*` | the instances TLC checks | |

**Rule engine.** Each variable is a field of `GameState` (`status`, `version`, `turn`,
`currentPlayer`, `bank`, `market`, ...) or of `players[p]` (`tokens`, `bonuses`, `reserved`,
...). An action is one accepted command and everything `applyCommand` does for it:
`TakeTokens`, `ReserveOpenCard`, `ReserveDeckTop`, `BuyOpenCard`, `BuyReservedCard`, `EndTurn`
and, for the END_TURN that ends the game, `EndGame`. Its guard is the preflight check
(`MayAct`) with the checks of the policies; a command that fails one is refused and changes
nothing. A player may send several commands in one turn, because the engine asks only for
END_TURN to move on. Lists of ids are sets, since only the market slot depends on an order. The
card that a hash of seed, version and tier picks is any card of the deck: the properties
hold whichever it is. Amounts in commands are any integers, since they come from clients.

**History.** `log` is the sequence of events. The `Logged...` actions conjoin an action of
`RuleEngine` with the events the same transition builds. `Replay` starts from the setup of
the game and folds the events without consulting a rule.

**Transaction runner.** A call owns `previous`, `current` (resolved when the call is in
`released`) and `queued`. The queue of microtasks is part of the state, because whether the
caller of `run` gets to publish before the next operation starts is decided by the position
of jobs in that queue alone: `queued` adopts `current`, so settling it takes the jobs
`FollowCurrent`, `Subscribe` and `Settle`, and that is what lets `Return` run first.

**Command service.** An action is the code between two awaits. The repositories are async
functions over maps, so each await is a microtask: `StoredReturns` and `ContextReturns` are
the extra one of an async function that itself awaits. `Handle` is a call of `handle` at any
moment between microtasks. The rule engine is seen as a version, a status and the list of
commands a state is made of; a command is a legal move, one that ends the game, or one the
engine refuses. `StorageFails` lets the transaction throw before its first write, which is
where the registry (`GAME_CONTEXT_NOT_FOUND`) and the test repository (`#persistFailure`) throw.
`published` is what one permanent listener receives.

**Runtime.** `watched` is `subscriptionsBySocket`, `known` the sockets that have an entry in
it, `listeners` the listeners of the registry, counted per socket. SUBSCRIBE_GAME is split at
its await: `SubscribeGame` reads the snapshot and leaves a job, `SubscriptionLoaded` registers
the listener and sends what was read. ws emits all messages of one chunk of a TCP stream in
one callback, so messages of a socket may be handled before the microtasks of
those ahead of them (`emitting`); `Idle` says that nothing is left to do before the next event of the
loop. `BrokenFrame` is the error event, `Closed` the close event, `SocketsAskedToClose`,
`SocketsGone` and `Stopped` the three stages of stop. The last one waits for `connected`, the HTTP
connections that are open: one whose request is incomplete or that says nothing counts, and only
its client ends it (`HttpEnds`). Requests that are answered at once open and end a connection of their own
in one step, until server.close; after it a request needs a connection that is still open (`Serving`). An
HTTP request is handled by the loop when it is `Idle`; several commands that a client sends in one chunk of one
connection without waiting for answers are outside the model. A game is its version: the event of a
command moves it on by one, or by two when the game ends.

**Client and game screen.** `requests[s]` and `sent[s]` are the two directions of a connection,
of which `read[s]` messages have arrived; both keep their order, and break together
(`SocketBreaks`, and the server hears of it later, or the other way round). HTTP goes over
other connections, so loads and answers are taken in any order with the snapshots, and with
`Faults` a request or its answer may be lost. A command is the version it expects; the
version check of `CommandService` decides it, in one step, because separate requests are
separate events (see below). `Mount` is the effect up to its first await, `LoadArrives` what
follows it unless the cleanup (`Unmount`) has run meanwhile.

**Console.** The page has one handle after the other; `Sockets` are the handles there can be,
and the callbacks of an earlier one stay attached (`CloseEvent`). `asked` and `pressed` are
history: the games the page asked its socket to follow, and that connect was pressed without
an effect so far.

**Envelope, admission, lobby.** JSON is abstracted to what the checks tell apart: a text with a
name and perhaps white space around it, a blank text, a number, a fraction, an object, or
anything else. `Refusal` is the first refusal in the order of the code: route, envelope,
payload, gateway, state, turn. `Lobby` holds the page shown, with how it was reached, the
requests of the lobby that may outlive it, and the games of the registry, with everything
`createLocalGameContext` puts into them from the real catalogs; `Rules` instantiates
`RuleEngine` with those.

**Dialog.** `ui` holds the focus, the key listeners, the inert background and what each run of
the effect remembers as the element to return to. Every render runs the cleanups of all
effects before the effects, in the order of the tree, because each render passes a new
`onClose`; a snapshot renders at any time and its effects are due later (`EffectsRun`).

## Runs

Bounds are constants of the modules or of the `MC` modules; deadlock is not checked in any
run, because games end, `MaxVersion` stops them, and every call may have been answered.

| run | instance | shows |
|---|---|---|
| `rules` | 2 players, 4 cards in 2 tiers, 2 nobles, limits 4 tokens and 2 reserved cards, target 2, versions up to 7, with the log | token, card, bonus, noble and score books; progress is kept; the events tell the game and its end |
| `endgame` | 3 players, 5 cards for one diamond, target 2, versions up to 11 | final round, last turns, winners |
| `runner` | 3 calls for one game, 1 for another, every order of arrivals and ends | mutual exclusion, lock entries, order of returns, liveness, refinement of `GameLock` |
| `service_concurrent` | 3 overlapping calls, 4 commands (two rivals for version 1, one of them ending the game, a reused key, a command for an ended game), failing storage | stores, answers and updates agree; every command is answered; refinement of `TransactionRunner` |
| `service_sequential` | 4 calls, one at a time, 7 commands including a blank key and a refused one, failing storage | idempotency, numbering, retries, no lost update |
| `runtime` | 2 sockets, 1 HTTP connection that lasts, 1 game up to version 3, requests while fewer than 2 messages were sent | listeners match subscriptions; nothing missed or repeated; what was asked for last is followed; stop ends unless the connection is held |
| `screens` | 2 screens, 1 command each, versions up to 3, connections that break, answers that are lost | watchers converge and never go back; one command per state; screens that are gone have no socket |
| `console` | 2 games, 2 sockets one after the other, 2 joins, 1 command, connections that break | label, handle and subscriptions agree; a joined game comes to be followed |
| `admission` | 2 players and a stranger, some 2 800 requests: every field with every kind of value, every path with every user | what reaches a transition, and who moves the game |
| `lobby` | 2 ids, 2 users (padded; Korean and turned away by the login), 7 bodies from elsewhere, 1 request of the lobby | where a tab ends up and under which name; how games start; no game is replaced |
| `dialog` | 3 overlays, 2 open cards, 2 replacements | listeners, inert background and focus |
| `update_lost` | 2 overlapping calls, 2 commands | an accepted effect is overwritten |

An invariant named after its module (`RunnerInv`, `RuntimeInv`, `ConsoleInv`, ..., and
`BoardKept`, `StoresInOrder`, `LogInOrder`) is the conjunction of named parts, each with its
own comment; `ScreenInv` and the others of the pages include the type invariant.

Configurations kept beside the runs, to be started by hand like them (`tlc -config X.cfg M`):

| configuration | module | result |
|---|---|---|
| `MCCallsOverlap` | `MCCommandService` | `AppliedOnce`, `VersionGrows` violated when two calls overlap (`-continue` reports both) |
| `MCTokensLost`, `MCTwoNobles` | `MCRuleEngine` | `LogTellsTheTokens`, `OneNoblePerTurn` violated |
| `MCRoundMidTurn` | `MCEndgame` | `FinalRoundFromTurnEnd` violated |
| `MCScreensDiffer`, `MCNotResynchronised` | `MCGameScreen` | `ScreensConverge`, `Resynchronised` violated |
| `MCWrongGame`, `MCConnectDoesNothing` | `Console` | `CommandsSentToTheirGame`, `ConnectHasEffect` violated |
| `MCVictoryBeforeEnd`, `MCCommandsNotSent` | `MCLobby` | `VictoryOnlyWhenEnded`, `CommandsAreSent` violated |
| `MCFocusLost`, `MCFocusEscapes`, `MCOtherCardReserved` | `Dialog` | `FocusReturnsToTrigger`, `FocusTrapped`, `ReservesTheCardShown` violated |
| `MCRuntimeLimits` | `Runtime` | `LastRequestWins`, `StopEnds` violated (`-continue` reports both) |
| `MCScreenLiveness` | `MCGameScreen` | passes: `GoneScreensAreForgotten` and `NewStatesReachWatchers`, with faults |

**Why the bounds are enough.** The limits of the code (10 tokens, 3 reserved cards, 15
points, 4 open cards) are scaled down so that a handful of commands reaches and tries to
pass each of them. In `rules` the payload sets hold a legal form of each request and one for
each reason of refusal (four distinct amounts, negative amounts, unneeded and insufficient
returns, a bank below four); tier 2 has one card, so that a market slot stays empty. In
`endgame` one card alone or two together reach the target, cards and points tie in several ways, and all of the last round fits
in the versions allowed. Three overlapping calls contain a holder, a waiter and a latecomer
of the lock; the fourth call of `runner` shows that games do not wait for each other.
In `runtime` one socket can subscribe twice before the first await ends, unsubscribe in the
same chunk, and close or break while its subscription is under way, with the other one
following the game; one HTTP connection can be opened before stop or during it, carry requests until it ends, and be
held; two commands are enough for an update before, during and after a
subscription, one of which may end the game. In `screens` a sender and a watcher, or two
rivals for one version, are the cases; three versions let an answer be overtaken by a later
snapshot. Two sockets of `console` are a change of user; two joins of two games, or of one.
In `admission` a request differs from a right one in one field at a time, because every check
looks at one field, except path, user and actor, which are compared and therefore combined.
In `lobby` the bodies give two, three and four players, and each reason of refusal once; one
request suffices for an answer that arrives after the form was edited or the page left. In
`dialog` two replacements take away both cards of the market, hence any trigger.
What holds for all constants is proved (below) where a proof is possible.

**Fairness.** `TransactionRunner` and `CommandService` assume weak fairness of "some microtask
runs": JavaScript drains its queue of microtasks before it does anything else. In
`TransactionRunner` operations also come to their end, because those of the registry only
touch maps in memory; `CommandService`, where the operation is spelled out, does not need
that assumption and shows it (`ImplementsRunner` includes fairness). `Runtime` assumes weak
fairness of the steps within a callback and strong fairness of the events of the loop that
stop waits for, since the loop takes an event that stays ready however many others come, and
of the end of a socket that is asked to close: ws destroys one that has not closed after 30
seconds. Nothing is assumed of the end of an HTTP connection, since server.close also ends Node's check
of request timeouts: `StopCompletes` has it as its hypothesis. The pages assume that what was asked is served and what was sent arrives or, with
`Faults`, is lost, and that a connection broken at one end is noticed at the other. Players,
users and clients are never assumed to act: nothing says that a game is finished, a command
sent or a page left.

## What the violated properties mean

`AppliedOnce`, `VersionGrows` and `NoUpdateLost` state `ARCHITECTURE.md` sections 5 to 7. They
hold when calls come one at a time (`service_sequential`) and fail once two calls of `handle`
for a game overlap (`update_lost` and `MCCallsOverlap`): the key
and the version are checked before the transaction, and the transaction checks neither
again. Today an overlap needs two calls within one drain of the microtask queue (two calls
started by code in the same process without awaiting the first); requests that arrive as
separate events of the event loop are handled one after the other, because the in-memory
repositories only ever await microtasks. A repository that does I/O widens the window to every pair of concurrent requests.
`service_concurrent` shows what survives the overlap.

`LogTellsTheTokens` states section 2.3 (snapshots can be rebuilt from events); the events of
the two commands that can return tokens do not say what was returned. `OneNoblePerTurn` and
`FinalRoundFromTurnEnd` state decisions 1 and 3 of the policy plan of 2026-02-12: the code
grants a noble per purchase, and a turn can hold several purchases; and it starts the final
round with the purchase, not with the end of the turn.

In the runtime: `LastRequestWins` (a socket follows what it asked for last and nothing else) fails for a client
that unsubscribes in the chunk in which it subscribes, because the subscription awaits its snapshot
and the cancellation does not; what a socket wants it does follow (`WantedGamesFollowed`), and the console,
which never unsubscribes, has both. `StopEnds` fails because `server.close` waits for every
connection, a silent one or one with an unfinished request included.

In the pages: `ScreensConverge` (two tabs show the same state, local runtime plan) fails
because `submitCommand` takes over the state in an answer without comparing versions;
`Resynchronised` (same plan: a snapshot after reconnecting) because the screen never opens
another socket; `ConnectHasEffect` because `ensureSocket` of the console returns a handle
whatever became of its socket; `CommandsSentToTheirGame` because the path of a command names
the active game and the command the shown one; `VictoryOnlyWhenEnded` (multi-screen plan)
because the victory page asks for no status; `CommandsAreSent` because the header of a
command carries the user id as it is, and a header holds Latin-1 only; `FocusReturnsToTrigger`
and `FocusTrapped` (multi-screen plan) because the element that opened a dialog may be gone,
and because keys are heard by the dialog alone while a click on its backdrop leaves it;
`ReservesTheCardShown` because the button of a card's dialog reserves the first open card of
tier 1. `PROJECT.json` quotes the lines.

Seen while modelling, and part of the modules, but not stated as properties: after the close
event of an earlier socket the console may say "disconnected" while the next one is open;
after a change of user the game it shows is not subscribed to again; an answer of the lobby moves a player out
of a game entered meanwhile; leaving a match for the lobby drops the user id; each snapshot
moves the focus to the first item of an open dialog; a body that is no JSON is answered 500;
blank entries of `playerIds` are dropped before they could be refused.

## Theorems

All proofs are checked by TLAPS. They assume nothing but the named `ASSUME`s of `Economy`,
`RuleEngine`, `TransactionRunner`, `CommandService`, `Runtime`, `GameClient`, `GameScreen`, `Envelope`
and `Lobby` about their constants: two to four distinct players, a well-typed finite catalog, an opening market that
is full or shows its whole deck, payload sets of integers, a game for every call, an expected version
and an effect for every command, one of the games for the screens, JSON lists of any texts and values
for the players of a body, and that names and markers for "none" (no call, no socket, no state, no record) are none of
the things they stand for the lack of, as the markers for JSON values (missing, blank, fraction, object)
are no texts, lists or keywords. TLC evaluates these on every instance.

**Rules.** `GameTheorems` proves, to begin with, the operators of `Economy`: an accepted gain and return keeps
wallets natural and within the limit and moves tokens without loss (`TokenDeltaSound`), an accepted
payment likewise (`BuyPaymentSound`), it costs the discounted price exactly
(`PaymentIsDiscountedPrice`), and one exists exactly if the player's gold covers the shortfall
(`BuyableIffGoldCoversShortfall`). On these rest the invariants `TypeOK`, `TokensConserved`,
`WalletWithinLimit` and `CardsInOnePlace`. `TypeOK` is inductive: that no count becomes negative
follows from the guards. Conservation rests on one lemma (`StepMovesTokens`): a step changes at most
one player's wallet, and the bank by as much. The card invariant needs both halves at once: the
market is apart from what the players hold, so a card taken from it is new to every hand; and a card
drawn avoids every hand and the market.

**The course of a game.** The same module proves the rest of what `rules` and `endgame` check.
- `TurnOrderKept` (the seat of the turn number, by modular arithmetic for two, three and four
  seats), `FinalRoundMetadata`, `LastTurnForEveryone` from both, and the action property
  `FinalRoundStartsOnce`. `LastTurnForEveryone` needs the turn order and the metadata in its
  inductive invariant: only they say that the player whose turn comes next is the trigger exactly
  when a full round has passed.
- `BoardKept`: `MarketRefilled`, `BonusesMatchPurchases` and `NoblesEarned`. Every step either
  leaves these books alone or is a reservation or purchase of one card, and `CardsInOnePlace` makes
  a purchased card new to its owner, so that the counter and the number of cards grow together.
- `ScoresCurrent`: a purchase adds its points to the sum over the cards its owner has, by
  the lemma `FoldInAnyOrder` below. From it, `FinalRoundRecorded` (somebody has the target exactly once the
  final round is on), `WinnersUnbeaten` (the code's maximum over points and minimum over cards names
  exactly the unbeaten players, and there is one) and the action property `ProgressKept`.
- `LogTellsTheGame` and `LogTellsTheEnd`, for `HistorySpec`, which implements `Spec`
  (`HistoryIsAGame`). The inductive invariant `LogIsRight` says that the replay of the log as far as
  it goes is the game as it is; the lemma `FoldOfSequence` makes a step of the game one step of the replay.

**Data.** The library's induction theorems cannot be instantiated here, but well-founded induction
over the subsets of a finite set can be stated with a set in place of the predicate. From that one fact
`FoldTheorems`, which says nothing of the code by itself, proves what a fold over a finite set or over a sequence does with one more element,
and `SubsequenceTheorems` what `Kept` does with appending, removing and prefixes. Every
statement about sums, replays, queues and logs below and above goes back to those.

**Transaction runner.** `RunnerTheorems` proves `RunnerInv` and `ReturnedBeforeNext` for any number
of calls and games, and that every step is a step of `GameLock` under the refinement mapping
(`RunnerIsALock`). That two operations exclude each other follows from a description of the whole
line of a game: calls arrive in one order (`ArrivalsInv`), each waits for the one before it in its
game (`WaitsForEarlier`), a call that is past its wait has no unfinished call before it
(`FirstComeFirstServed`), and `#locks` names the last unfinished one (`LocksInv`); and that the
microtasks queued are those of the phases the calls are in (`CallsInOrder`). None of these is
inductive without the others. That a call has returned before the next begins is a statement about
positions in the queue: the job that returns was queued before the one that settles what the next
call waits for.

**Command service.** `ServiceTheorems` proves, for any number of overlapping calls, games and
commands and with storage that fails at will, `StoresInOrder`, `AnswersMatchLog` and
`UpdatesFollowLog`. The first half of the invariant is `ControlInv`: each call has exactly one
microtask or rests, its phase says which, and seen through the runner's jobs the state satisfies the
runner's invariant, because every step is one of its steps (`ServiceUsesTheRunner`). So only one
transaction of a game is between two writes, and the second half, `DataInv`, can say what it has written so
far: log, snapshot, record and updates are those of the commits before it, and of its own as far as
it is past the write in question. What a call found or loaded before its awaits was true of an
earlier log (`FoundInv`), and logs only grow.
Under the hypothesis `MaxInFlight = 1`, that calls come one at a time, the same module proves
`LogInOrder`, `RetriesGetFirstAnswer` and `NoUpdateLost`: what a call loaded is then still what is
stored when its transaction writes (`LoadedInv`), a key it did not find is still unused
(`FreshInv`), hence every key is committed once (`OnceInv`) and every commit has the version after the last
(`NumberInv`). Without the hypothesis these are false (`update_lost`).

**Runtime.** `RuntimeTheorems` proves `RuntimeInv`: `ListenersMatchSubscriptions`,
`ClosedSocketsHoldNothing`, `WantedGamesFollowed` and `StopLeavesNothing`, for any number of games, sockets and
connections and for any number of messages in a callback. The
inductive invariant adds that entries exist for live sockets only (`EntriesAreLive`) and that
nothing is open while the server is down (`DownMeansAlone`); a subscription that awaited its
snapshot while its socket closed then finds no entry and adds nothing. `SubscribersUpToDate` and
`EventsContinueSnapshot` come from a second invariant, `DeliveryInv`: what a socket was told of a
game continues from one message to the next, a socket that watches was told the version of the game
last, and a subscription under way has read the version it is going to send.
`WantedGamesFollowed` is proved from a third invariant, `RequestInv`: what a socket wants is among what it
watches and the subscriptions under way (`UnderWay`). The other direction, `NothingUnasked`, is kept
by every step but UNSUBSCRIBE_GAME; so `LastRequestWins` holds of every behaviour without one
(`SubscribersGetWhatTheyAsked`).

**Game screens.** `ClientTheorems` proves `ScreenInv` (a screen that only watches shows the newest
state once everything has arrived), `AppliedOnceFromAState`, `WatcherNeverGoesBack` and
`GoneScreensHaveNoSocket`, for any number of screens and commands, with connections that break and
answers that are lost. `ScreensUseTheRuntime` says that every step of `GameScreen` is one of
`Runtime` or leaves it alone, so that `DeliveryInv` holds of the screens' sockets; it is proved
without fairness, because `GameScreen` states a fairness of its own. `PagesInv` adds
what the pages know. `FollowInv`: from the moment its socket opens, a live screen has its subscription
under way, at one of three places, or has it; this is why nothing is missed between load and
subscription. `WatchInv`: what a watching screen shows lies between the states that have arrived and
those that have not, which needs `SentInv` (states are sent in order) and, for the load, that
nothing arrives before it (`StageInv`). `AcceptedInv`: an accepted command left the version it
expected behind, so that no other can be accepted from there.

**Console.** The same module proves `ConsoleInv` for any number of handles, games and joins.
`ConsolePageInv` says what the page knows of its handles: those it let go of are closed or
closing (`HandleInv`), and the payloads that wait for a socket to open or for the server are subscriptions and
nothing else (`Payloads`). So a step of the console is one of `Runtime` other than UNSUBSCRIBE_GAME, and
`SubscribersGetWhatTheyAsked` gives the last part of `ConsoleInv`, also when several queued
subscriptions share a chunk; `LabelTellsTheTruth` gives the others.

**The way to a game.** `PageTheorems` proves `LobbyInv` and `GamesNeverReplaced` for any names, typed
texts, bodies and number of overlapping requests. The inductive invariant `TabInv` carries the
promise of an answer over the time it is under way: a request that found a game names one that
exists, and a request that created it was made for the user in its first seat, however the form was
edited since (`RequestFine`); the page that the answer opens inherits both (`PageFine`). Every step
lets the registry grow only (`Grown`), which keeps the two true. That a command of the
screen is refused for the state of the game alone (`ScreenRefusals`) goes through every check
between route and rules, and rests on two facts about white space: a page's user has none, and
the server's trimming leaves such a name alone (`UsersAreTexts`). That the creator has the first
seat rests on `LobbyPlayers`: a blank user would be dropped from the list of players, but then one player
is left, and the game is refused. `GamesStartSeated` adds that every game starts from
`CreateLocalGameContext` of two to four distinct players.

**Admission.** `OnlyTypedCommandsArrive` and `CurrentPlayerMoves` hold for any set of requests: the first
failing check is the answer (`FailureIs`), so a command that is not refused has passed all of them
(`RefusalOk`), those of its payload included (`PayloadTyped`), and a field that passed a check is there,
because what is missing passes none. END_TURN is the one command whose actor is compared by the
rules and not before; the action property shows that the place makes no difference. That the current player
sent the command is as much as x-user-id says: without the header the server takes the actor's word.

**Overlays.** `DialogIsSafe` and `FocusIsReturned` hold for any number of cards and snapshots. The inductive
invariant `DocumentInv` relates the document to the flags of the overlays at every moment, also
while effects are due: exactly what is open listens, the background is inert if anything is, the
focus is in the open dialog or nowhere, and the dialog remembers the trigger it was opened from, as
long as that is on the board (`Follows`). The last part is the delicate one: every snapshot runs cleanup and
effect again, so the remembered element is read anew from the document each time, and is still the
trigger only because the cleanup has just moved the focus there.

Not proved, and why. Liveness, ENABLED and fairness are out of the prover's reach: `EveryCallReturns`,
`EveryCommandAnswered`, `StopCompletes`, `JoinedGameIsFollowed`, and the fairness of the refinements
of `GameLock` and `TransactionRunner`, whose safety is proved. `GamesStartAsRulesAssume` is proved
up to the catalog (`GamesStartSeated`); that the 90 cards and ten nobles fit the rules for two, three and four
players is a computation on fixed data, selecting and cutting sequences, which TLC evaluates in
`lobby` for each number of players and the provers cannot. The properties that are
violated (but for `LastRequestWins` where nobody unsubscribes), and those of the configurations beside the runs, stay with TLC as well.

## Not modelled

Bootstrap, configuration, health route and logging (no state); type declarations, markup and
the mapper's default for a field no caller of the in-memory runtime lacks; the maps of the
in-memory command handler that only tests use (its failure is); a failure of `listen`,
before which nothing has happened. The display data of cards is derived from a hash of the
card's id instead of the catalog, so nothing about the rules can be said of it. The screen
sends only TAKE_TOKENS and RESERVE_CARD; BUY_CARD and END_TURN come from other clients.
Dialogs are those of browsers that focus a button when it is clicked. Which card a hash
draws, and the texts of errors and labels, are abstracted.

What would come next: an abstract game (who owns which card and token) that `RuleEngine`
implements, and the fairness half of the two refinements, should a prover for it become
available.
