# ydbay: specifications and proofs

ydbay is a small online auction built to compare three ways of carrying a change in a
YottaDB database to a web page. The program (`src/`) is a Mosquitto broker plugin in
C++, database triggers in C and M, and a page in JavaScript. This directory holds its
formal model: TLA+ modules translated from that code, TLC configurations that check them
on small instances, and TLAPS proofs that hold for every instance.

To run: `tlc -config X.cfg M` for a row of the table under *Runs*, `tlapm M.tla` for the
proof modules. `PROJECT.json` maps each definition to its source lines and lists the
hazards, the runs, a mutant for every property and the theorems.

## 1. The system

    set title ──> trigger (in the setter's transaction)
                    ├─ global: append to ^globalSyncBuffer ──┐
                    ├─ mq:     mq_send to /mqsync ───────────┤ tick callback
                    └─ client: MQTT publish to the broker    │ of the plugin
                          │                                  v
    page  <── MQTT ──  Mosquitto broker with the plugin ── ^articles (YottaDB)
     └─ mqttfetch requests: get_articles, get_article, bid ──^

| Component | State it keeps | Operations | Hard behaviour | Correct when |
|---|---|---|---|---|
| **Bid handler**, `callback_message`, `plugin.cpp:161-312` | `^articles(id)`: `bid`, `maxbid`, `winner`, `client` | one request; five outcomes (four of them stores and messages, one silent) | four stores without a transaction; a message to "the client on record"; `int` arithmetic at its limit | the auction is a proxy auction, and what the pages are told is what is stored |
| **Global mode**: `syncBuffer.m` and `get_global_sync_buffer_data`, `plugin.cpp:332-382` | `^globalSyncBuffer` with counter, its lock, the local variable `dummy` | append under lock; try lock, copy, kill, unlock, publish | the trigger lives in a transaction and the plugin does not; the numbers start again after each kill; the plugin only tries for the lock; deaths | no title is lost, doubled or reordered; every title comes out in the end |
| **Queue mode**: `mq_trigger.c` and `receive_and_publish_mq_messages`, `plugin.cpp:386-427` | the kernel's queue `/mqsync` (10 × 8192 bytes), a stack buffer, a descriptor per process | blocking `mq_send` with retry on `EINTR`; up to 300 non-blocking `mq_receive` per tick; `strtok` | a full queue; signals; messages sent before their set commits; an uninitialised buffer that is reused | the page ends up with the title that was committed, as far as `strtok` leaves it; the topic is never mistaken |
| **Client mode**: `mqttClient.c` | static client and connection result of each database process | connect asynchronously, publish with QoS 2 | publish before the connection and before the commit; the process ends first; a client left behind by each failed connect; one client for each process | page and database agree once everything has come to rest |
| **Read requests**: `plugin.cpp:205-237` | none (reads `^articles`) | `get_articles`, `get_article`, unknown actions | several reads without a transaction | an answer describes one state of an article |
| **Plugin lifecycle**: `plugin.cpp:76-158`, `mosquitto.conf` | mode, queue descriptor, log files, registered callbacks | version, init, cleanup | the mode is chosen twice, here and by the trigger in the database, and nobody compares the two | what a mode left behind comes out later; no set of a title waits for ever |
| **Request layer of the page**: `mqtt-fetch.js` | request index, `mqtt_topicMap` with resolvers, timers and callbacks | `init`, `send`, `mqtt_fetch_rx`, `mqtt_fetch_error`, `set_callback`, `delete_callback` | the timeout races the answer; subscribing races the first message; a subscription may be refused | a promise is resolved by its own answer, at most once; page and broker agree on the callbacks |
| **Auction page**: `aabay.js`, `aabay.html` | list, detail view, status line | `make_list`, `show`, `rx_bid`, `rx_title`, `rx_status`, `tx_bid` | notices between the answer to `get_articles` and the subscription; notices between a click and its answer | the page comes to show what the database holds |
| **Time measurement**: `plugin.cpp:356-373, 402-417, 462-475` | a counter of synchronisations, log files | count, log, reset at 1000 | replaces publishing when it is on; `stoll` throws at a title that is no number (line 365) | the broker's end leaves page and database explicable |
| **Title setter**: `set_global_var.cpp`, `individual_process.sh` | none | sets titles in a loop, or in a process each | many processes | - |
| **FIFO demo**: `FIFO_Demo/` | a named pipe | write a line, read all lines | two lines in one `cat` | - |
| **jsoncpp** (vendored), `jsoncpp.cpp`, `json.h`: reads every request and writes every answer | a tree of values; for a text being read its tokens, for one being written what was written aside | parse; operations on arrays and objects, conversions, comparison; four writers | recursive descent with recovery from errors; integers of three limits; arrays with gaps; a writer that reuses its own state | JSON is read as what it means, what is written is JSON and is read back |
| Vendored: Paho (`mqttws31.js`), `ydb-global.h` | | | | not modelled |

Interaction: the plugin is single-threaded, each callback runs to completion inside the
broker's loop, and messages it publishes are queued by the broker in that order. The
triggers run in the processes that set titles, concurrently with the plugin and with each
other. Between them lie the database (transactions, locks) or the kernel (the queue).

## 2. What is modelled

### Bidding, ProxyAuction (bid handler)

`Bidding` has one action for each way through the `bid` branch: `RaiseMaximum` and
`RejectOwnBid` (the bidder leads, lines 253-265), `Overbid` (267-289), `RaisePrice`
(291-302) and `IgnoreLowBid` (the fall through to line 304, which answers nothing). The
handler cannot be interrupted by another request, so a request is one step; the database
stores are not in a transaction, so `Crash` lets the broker die after any number of them,
in the order in which the code makes them (`AfterOverbid` and its siblings). A bid that is
no number, or a bid for an article that does not exist, throws out of `stoi` and ends the
broker before any store: that is `Crash` with no store done. The branch for `rc = -3`
(246-251) is unreachable, as `stoi` on line 244 throws first for an article without
`maxbid`; it has no action.

`articles` is the database; `notified` is the last price published for an article;
`leaders` holds which page believes it leads, under which nickname: a page learns it
leads from `rc` 0 and 1, and that it no longer does from `rc` -2 or from the status
message to the client on record. `offers` and `opening` are history. C++ `int` has bounds
`MinInt..MaxInt`; `maxbid + 1` at the largest int is undefined behaviour, and the build
(g++) folds the comparison into `bid > maxbid`, which `Overbids` says. The fields `title`
and `text` play no part in bidding and are left out, and so are messages that change
nothing at the receiver.

`ProxyAuction` is what a buyer may expect of an auction with secret maximum bids: the
highest offer leads, the earliest on a tie; the price covers every other offer and exceeds
it by at most one; it never exceeds the leader's own offer. `Bidding` implements it with
`winner` and `bid` as leader and price.

### GlobalSync, TitleFeed (mode "global")

A writer is a process that sets titles: `SetTitle` fires the trigger, whose M lines are
`LockDest`, `Store` (`$INCREMENT` and `merge`) and `UnlockDest`; then the transaction takes
effect (`Commit`) or is run again (`Restart`). The plugin's tick is a chain of steps, one
for each database call: `FindChildren`, `TryLock` or `LockBusy`, `Copy` once for each
child, `EndCopy`, `KillBuffer`, `Unlock`, `Publish` once for each child, `KillDummy`. A
tick on an empty buffer changes nothing and is a stutter. `WriterDies` and `BrokerDies`
end a process at any point; the database frees its locks and undoes its transaction.

What the model takes from YottaDB, which is not in `src/`: a trigger runs inside the
transaction of its set; `$INCREMENT` in a transaction is read and stored like any other
data, and a commit whose reads are out of date restarts the transaction (`outdated`);
subscripts come in numeric order; a nested lock release may be deferred to the commit.
The last point decides something, so it is a constant, `HeldToCommit`:

* **TRUE**: the lock that line 7 of `syncBuffer.m` gives back stays held until the commit.
  Then no title is lost (`NothingLost`, `ImplementsTitleFeed`, proved).
* **FALSE**: the lock is free at once. Then a title may be lost: the trigger stores and
  unlocks, the plugin locks, copies the buffer (the uncommitted title is not in it), the
  transaction commits, the plugin kills the buffer. Setting `HeldToCommit = FALSE` in
  `GlobalSync.cfg` makes TLC print this trace. Order and uniqueness survive even so
  (`GlobalSyncDeaths.cfg`, proved).

The code relies on the first reading without saying so. It is an assumption of the loss
theorem, not a finding: which one holds is a matter of the database.

Topic and payload of a title are abstracted to the ordinal of its commit, which is all
that loss, order and uniqueness tell apart. `TitleFeed` is the abstract channel: what is
sent is published in order and once; with `MayLose` some may be skipped.

### QueueSync (mode "mq")

Actions of the trigger: `Open`, `OpenFails`, `Send`, `Interrupt` (EINTR, the retry loop),
`SendFails` (any other error: the message is dropped, the set goes through), `Commit`,
`Restart`. Of the plugin: `BeginTick`, `Receive`, `Publish`, `EndTick`. `WriterDies` and
`BrokerDies` end a process; the queue is a kernel object and outlives both. Messages all
have priority 1, so it is first in, first out.

A message leaves before its set commits, and cannot be taken back: a transaction that
restarts sends again. A commit makes every other open transaction on the same article
restart, since they have read the block it changes. `QuietAgreement` says that this is
enough: when nothing is under way, the last title published for an article is the title
stored, unless a fault met the article (`disturbed`) after the last trigger that went
through. Errors of the queue and deaths share one budget (`MaxFaults`), so that one run
has the behaviour without faults and with them.

### QueueText (the receive buffer)

The bytes of one message on their way through `char buffer[]`, `mq_receive` and two calls
of `strtok`. A byte is a NUL, a space or any other. `BeginTick` leaves the buffer with
any content, since it is an uninitialised array on the stack; `Receive` writes the bytes
over those of the message before and terminates nothing, as the code does. Where the
remains have no NUL up to the end of the array, reading on is undefined; the model ends
the token there, which is the most benign outcome.

A title of several words loses all but the first, which is a finding (*Findings*). Behind a
title of one word may stand the remains of a longer message: `FirstWordIsPublished` permits
them and no property says that a title arrives unchanged. What holds is that the topic is
the one sent and that the first word is there, from its first byte to its last.

### MqttFetch, Requests (request layer of the page)

The page has one thread, so a step is a task of the browser: a call of `send` (`Send`,
`SendThrows` without a connection), of `set_callback` or `delete_callback`, a packet handed
to `mqtt_fetch_rx` (`RxAnswer`, `RxDiscard`, `RxNotice`) or to the `onSuccess` or
`onFailure` of a subscription (`RxAcknowledgement`), a timer (`Timeout`). What follows an `await` is queued
in `resumed` and runs before the next task (`Resume`). The broker handles packets in order
and may answer a request late or, as the plugin does for a low bid, not at all. The
connection may fail at first (`ConnectFails`), break with packets under way, and be noticed
to be lost later.

The broker may refuse a subscription (`BrokerRefuses`, SUBACK with 0x80). Then `onFailure`
resolves the promise with 1 (`mqtt-fetch.js:48`), and neither `set_callback` nor `init` looks
at it: the callback is entered, and the page goes on, as after a success. So page and
broker do disagree about a refused topic, and `CallbacksAgree` says so: with nothing under
way for a topic, the page has a callback for it exactly if the broker has it subscribed or
has refused it since it was last subscribed to or unsubscribed from (`refused`, history).
Paho times a subscription out only if it is given a `timeout`, and this page gives none, so a
SUBACK is the only way to `onFailure`; for an unsubscription there is none.

`mqtt_topicMap` holds the call whose resolver it is under a number, and the constant
`Callback` under a topic or `-1`. `promises` says how each call of `send` ended. `Requests`
is the abstract layer: the promise of a call is fulfilled by its own answer, at most once,
and may stay open for ever. The code needs care for that, because a `send` that throws
leaves the index as it was: the next request takes its number, over the map entry of the
one before, whose timer is still running.

Vendored code enters here by what the page sees of it: the Paho client hands over, in one
task, all packets of one WebSocket frame (`mqttws31.js:1145-1152`). `OnePerFrame` says that
there is one in each, as Mosquitto sends them; MQTT does not demand it. With `FALSE`, a
confirmation and the first message of a topic may share a frame, the message is handed over
before the `await` of line 121 goes on, and `NothingStray` fails. That is an assumption
about the broker, like `HeldToCommit` about the database, and not a finding.

### AuctionPage (list and detail view)

`AuctionPage` instantiates `MqttFetch` and conjoins to its steps what the page does in them:
`AskForList` and `MakeList` are the two sides of the `await` in `make_list`, `Click` and
`Show` those of the one in `show`, `RxBid` and `RxTitle` the callbacks. `list` holds the
items; `detail` the view, with the CSS class of its price, by which `rx_bid` finds it. At
the other end `AnswerList` and `AnswerArticle` are the plugin's two reads, `Bid` a bid that
raises the price, `SetTitle` and `PublishTitle` a title set and published. The list is
asked for once, so a message counts as missed (`Missed`) only if it was the last of its
topic and went out after that answer and before the subscription. The broker here grants
every subscription: `aabay.js` ignores what `set_callback` returns, so after a refusal the
list would never change, and nothing more could be said of it.

Titles are published after they are stored, in order, as in mode "global". In the other
two modes a message may leave before its set commits, which makes the gap between list and
subscription wider; that is not modelled here.

### ClientSync, PluginLifecycle, SyncModes (the three modes together)

`ClientSync` is `publishMqttMessage` with its two static variables: the first call makes a
client that connects in the background, later ones use it; a call that fails on the way
(`ConnectFails`, whether the broker is up or not) leaves `conn_result` as it was, and the
next one makes another client; a `mosquitto_publish` that fails (`PublishFails`) gives up
the message and keeps the client. Behind it stands
what the code asks of the MQTT library: messages wait in the client (`outbox`), are sent in
order once it is connected, and die with the process.

`PluginLifecycle` has the static variables of the plugin, `mosquitto_plugin_init` with the
options in their order (a later mode replaces an earlier one, an unknown mode changes
nothing), the queue that cannot be opened (`PluginRefuses`), cleanup, and the counter of the
time measurement. Cleanup unregisters an event that was never registered, and as that fails
no other; the broker raises no event after cleanup and its process ends, so nothing follows.

`SyncModes` composes both with the queue, the buffer and the writers. A title on its way is
in one of the *lanes*: the client of its writer, the queue or the buffer. `InstallTrigger`
changes the trigger in the database (each file of `trigger_definition_files` deletes all
triggers first), `StartBroker` chooses a mode, and the two need not match. The trigger and
the tick are one step each, unless the trigger waits for room in the queue or the broker
ends within a tick (`DiesAtMessage`, `DiesAfterKill`); their inner steps are in `QueueSync`
and `GlobalSync`, whose locks and limits make that sound: an append to the buffer is seen
when its transaction commits, and what a tick takes it takes in order. `TriggerMqFails` is
the queue that cannot be opened (`mq_trigger.c:35`) or refuses the message with anything but
`EINTR` (line 49): the set goes through without its message. With the measurement on, a tick
publishes nothing, and in mode "global" `stoll` ends the broker at a title that is no number,
after the buffer was killed (`TickThrows`). In mode "mq" a blank title may end it with the
message in hand (`TickAborts`), between two messages of a tick. Nobody looks at what
`publish_mqtt_message` returns, so any message may be `Lost` there.

A title that came by the queue is shown with `whole` FALSE: it has passed `strtok`, and is
its first word, perhaps with remains behind it. What that can be is the matter of
`QueueText`; here a title is a value that cannot be taken apart.

`disturbed` and `fresh` are history. They say for which articles page and database may
disagree, and `Agreement` says that for no others they do. It is about *which* title the page
shows, not about its being whole, and says nothing of a title cut by the queue being like the
one stored. When nothing is under way and the article has been set, on a lane of its own,
by a set that went through, these are the things that may have happened to it since:

* a message of it was handed over while another one of it was under way on another lane, by
  another process in mode "client" or after a switch of the mode, and may have been overtaken;
* no trigger was installed, or the trigger could not hand the message over: the client could
  not be made or connected, or could not publish (`mqttClient.c:17-30, 42`); the queue could
  not be opened or refused the message (`mq_trigger.c:35, 49`);
* the process that set the title ended with the message still in its client, or with the set
  open; or the broker ended with the message half received from a client or taken by a tick:
  killed, by a blank title (`plugin.cpp:400`), or by a title that is no number (365);
* the broker could not publish the message, or the time was measured instead.

The first is the one a reader may not expect. A blank title whose message is published after
all, with remains in its place, is shown as a title that is not whole.

### JsonValue, JsonReader, JsonWriter, JsonDocument (jsoncpp)

`JsonValue` is `Json::Value`: the types, the conversions, order, equality, and the
operations on arrays and objects. An array is, as in the code, a *map* from indices to
values with gaps. `JsonReader` is the reader that `CharReaderBuilder` makes, with all its
features: `ReadToken`, the recursive descent (`ReadValue`, `ReadMembers`, `ReadElements`),
the decoding of numbers and strings, the recovery from errors and the stack limit.
`JsonWriter` has the four writers, `StreamWriterBuilder`'s with its settings; the way they
write an array aside to see whether it fits a line is a state of the model. `JsonDocument`
is a program that uses them: in one kind of session a text comes in piece by piece, in the
other a value is built by any calls. `Deliver` may come at any moment: the text is read, or
the value is written in every layout; the properties of the run are about that step.

References, which model no code: `JsonGrammar` says what a text of the JSON grammar means,
by splitting it wherever it can be split and with no reader's state, and what a sequence of
bytes in UTF-8 means; `JsonSequence` says what an array promises, a sequence counted from zero.

Strings and names are sequences of bytes, 0..255. A text is a sequence of *symbols*: a byte
under its character or a name (`SymbolOf`), or a word (`null`, `NaN`, the byte order mark)
of which the code takes all or nothing. The four digits after `\u` are read and written
digit by digit; two escapes that are a pair of surrogates become one code point and the bytes of
its UTF-8 (`DecodeCodePoint`, `CodePointToUTF8`). In the other direction `Utf8ToCodepoint`
does what the code does: the first byte alone says how many bytes there are, the others
are not looked at, so a stray byte takes up to three bytes behind it along, whatever they are:
80 61 is written as `\ufffd` without the `a`, C3 22 as `\u00e2` without the quote.

Abstractions: integers have the widths `MaxInt` and `MaxLargestInt` (4 and 8 bits in the run,
32 and 64 in the code), with the same relation of the limits to each other and to the
doubles next to them; a real is an exact decimal. A line has `RightMargin` columns for 74,
a name fewer than `NameLimit` bytes for 2^30. Comments attached to values, positions in the
text and the wording of errors are left out.

## 3. Runs

| Run | Configuration | Question | Distinct states |
|---|---|---|---|
| bidding | `Bidding.cfg` | is any sequence of bids handled as the proxy auction demands, and are the pages told what is stored? | 1 158 |
| bidding_crash | `BiddingCrash.cfg` | what survives a broker that dies between two stores? | 103 908 |
| global_sync | `GlobalSync.cfg` | does the locking alone keep every title, in order, across buffers, and does everything end? | 6 315 |
| global_sync_deaths | `GlobalSyncDeaths.cfg` | what is left of that when processes die and the lock is free early? | 21 874 |
| queue_sync | `QueueSync.cfg` | does the page end up with the committed title, with a full queue, signals, restarts and a fault, and does a full queue only delay? | 191 976 |
| queue_text | `QueueText.cfg` | what of a title arrives for certain? | 66 212 |
| queue_text_intact | `QueueTextIntact.cfg` | does every word of it arrive? No: a finding | - |
| mqtt_fetch | `MqttFetch.cfg` | does every promise get its own answer, and leave the map, and do page and broker agree on the callbacks, whatever overlaps, times out, is refused or breaks? | 237 720 |
| auction_page | `AuctionPage.cfg` | does the page come to show what is stored? | 421 008 |
| auction_page_gap | `AuctionPageGap.cfg` | does the list always show the title? No: a finding | - |
| sync_modes | `SyncModes.cfg` | what do modes that do not match, switches between them, calls that fail and processes that end leave? | 254 000 |
| json | `JsonDocument.cfg` | is JSON read as what it means, nothing else accepted, what is built written as JSON; do arrays, conversions and order keep their promises? | 777 756 |

What they show:

* **Bidding.** The refinement of `ProxyAuction` (whoever offered most leads, at a price that
  covers the others) holds for all bids up to and including the largest int. `NoticeAgreesWithPrice`: what
  the two branches publish is what they store; each request is one step, since nobody can look
  in between.
  `RecordedClientKnows`: the page that will get the next "overbid" status is one that
  knows it leads. `StaleLeadersShareNickname` delimits when a page is left with a wrong
  belief: only when its nickname is in use on another page, since one `client` is kept for
  each article.
* **Crashes.** Price and maximum always cover every completed offer (`NoOfferForgotten`)
  and never fall (`PriceNeverFalls`): that is owed to the order of the stores, price
  before maximum before winner. The price may exceed the maximum by one
  (`PriceWithinOneOfMaximum`); a wrong *winner* may stay on record next to the maximum of
  the one who died, so the refinement is not claimed after crashes.
* **Synchronisation.** As the table says; `TriggerReturns` and `EventuallyPublished` are
  the two liveness questions of both modes. Neither mode publishes a title twice or out of
  order, whatever dies.
* **The modes together.** `Agreement` bounds the damage of everything that can go wrong
  between the modes. `LanesDrain`: what was left in the queue, the buffer or a client comes
  out once somebody serves it again, so it is late and not lost. `WaitsOnlyForReader`: the
  one way to block the database for ever is a full queue without a reader, that is the
  trigger of mode "mq" with a plugin in another mode (ten sets suffice), or no broker.
* **JSON.** `ReadsJson`: every text of the grammar is accepted, whatever liberties the
  features add, and as its meaning; integers come in the narrowest type and not one digit
  too early as reals; the stack limit throws exactly beyond it. `AcceptsOnlyJson`: the
  strict mode takes nothing else, but for these liberties, which the property lists:
  comments inside arrays and objects (it forbids them only at the start of a value, though
  `json.h:484` says "Comments are forbidden"), numbers such as `-`, `01`, `+1` and `1.`,
  control characters and lone surrogates in strings, a trailing comma after an empty name,
  and, after a comment behind a member, any token in place of the comma. Of the recovery
  from errors it shows that what failed inside fails the text. Text after a NUL
  counts as the end. `WrittenIsRead`: each writer's text is JSON with the meaning of the
  value, and is read back as it, except where a setting (`dropNullPlaceholders`, a NaN
  without a word for it) or the older styled writers (names up to their first NUL) lose
  something, and but for strings that are not UTF-8, of which only the beginning up to the
  first stray byte is sure to come back when `emitUTF8` is off; `IsWritable` and `Remains`
  say it. The text is well-formed JSON even then. (With `emitUTF8` the bytes go out as they
  are, and a string that was not UTF-8 makes a text that is not.) `ImplementsSequence`: the map with gaps
  is a sequence to its callers, though `removeIndex` and `resize` may drop trailing nulls
  nobody stored, and `resize` throws where the entry before the new end was never made.
  `NumbersConvert`: the only conversions that leave the language's guarantees are those of
  the doubles 2^63 and 2^64, which `InRange` lets pass and `isInt64` does not.
  `OrderIsTotal`: but for NaN.
* **The page.** `ImplementsRequests` and `DiscardedWereLate` together
  say that answers, timeouts and reused numbers never meet the wrong request;
  `CallbacksAgree` and `NothingStray` that overlapping calls of `set_callback` and
  `delete_callback` leave page and broker in agreement, but for a callback that a refused
  subscription leaves on the page. `DetailShowsPrice` holds although
  the price comes in one message and the article in another, because both travel on one
  connection in order and the subscription precedes the list a click needs. `ListAgrees`
  names the one gap exactly, and `auction_page_gap` shows it.

### Bounds, and why they are enough

* Bidding: one article (a request touches one article only, and the proofs cover any
  number), three pages, three nicknames of which one is empty and one is shared by two
  pages, ints -1..4, opening prices 0 and 1. Every comparison of the handler is between
  two stored values and a bid, so six values give every order of them, both ends of the
  range included.
* GlobalSync: two writers and the plugin (a third writer meets the same lock), five titles
  (`MaxAppends`), four with deaths: enough for a second buffer to fill, be copied and be
  published while the first is on its way out. The proofs need no bound.
* QueueSync: queue of two for 10 and two messages per tick for 300, so that both limits
  are met within the three messages (`MaxSent`) of a run, two writers, one article (sets of
  different articles share nothing but the queue's order), one fault. The bound is a guard
  of `Send` and `SetTitle`; liveness is stated up to it.
* QueueText: topics of two lengths, all titles of up to three bytes, a buffer of seven.
* MqttFetch: one topic (calls for different topics touch different keys), two
  calls of `send` and two packets under way in each direction. Two throwing calls share a
  number, which is the reuse that can happen: a `send` throws only after the connection is
  noticed to be gone, so no number of a call that can still be answered is used again
  (`Linked`, proved for any number of calls). Two packets are what a call of `set_callback`
  and one of `delete_callback` that overlap need, or a subscription that is granted and
  another that is refused.
* AuctionPage: two articles, two clicks and two changes of price or title: a view that
  goes from one article to the other with a change at each point in between.
* SyncModes: two writers, one article (overtaking is a matter of one article; the proofs cover
  any number), a queue of two messages, three events (a title set, the end of a process, a
  trigger installed, the end of the broker), titles that are a number or blank, four lists of
  options that cover the three modes, measuring in two of them, an unknown mode and a mode
  given twice. Two sets and a switch are what one overtaking or one leftover needs; two
  sets fill the queue when the transaction of one of them is run again and sends twice.
* JSON: each session aims at a part of the reader and has the symbols that matter there:
  numbers of five of nine symbols, around both limits of eight bits; arrays and objects of up
  to seven pieces, with comments and NULs; strings of four pieces with every kind of escape,
  whole pairs, halves, and quads that are no number or too short; a stack of two; duplicate
  names and one of three bytes (`NameLimit`); every feature on. Strings that are written have
  a character of four bytes, a stray byte before a letter, a lead byte before a quote, and a
  character that breaks off at the end. A value that is built has up to three
  entries with up to two levels inside a leaf, and is written in eight layouts with lines of
  twelve columns, so that arrays fall on both sides of the limit.

`CHECK_DEADLOCK FALSE` stands where the bound on titles or messages ends a run, or where
nobody need set a title: the system may stop there.

### Fairness

Mosquitto raises the tick event once for each turn of its main loop, for ever: weak
fairness of `Tick`. A trigger is straight-line code in a running process: weak fairness
of its steps. For the queue it includes the step after a wait, since the kernel wakes the
sender that waits. No fairness is assumed of setting titles, of signals or of deaths. The
plugin's *try* at the lock gets only weak fairness and fails whenever a trigger is in; it
succeeds in the end because bursts of sets end (the bound), and against triggers that
never pause nothing would be promised.

In `SyncModes` the same is assumed of ticks and triggers, and a network thread runs as long
as its process; nobody has to start a broker, install a trigger or set a title.

In the page, a continuation runs as soon as the task ends: weak fairness of `Resume`. A
timer that is due fires although other tasks keep coming: strong fairness of `Timeout`,
since a continuation that is pending disables it again and again. No fairness is assumed of
the broker or the network.

## 4. Proofs

Checked by TLAPS with no unproved leaf; nothing is assumed beyond the named assumptions
on the constants, which TLC evaluates in every run: bounds and widths are numbers, what has
to differ differs (topics from numbers, writers from the names of the lanes), and there is
an article to set and a title to set it to. What the surroundings decide, `HeldToCommit`
(database) and `OnePerFrame` (broker), is not among them: a theorem that needs it says so.

**`BiddingProof`**, for any articles, pages, nicknames and bids:

* types under crashes (`CrashTypeCorrect`): the sum stored as the price fits an int
  because something overbid it;
* `LeaderCorrect`, `PriceCorrect`: the two properties together are inductive (`Auction`),
  each needs the other: an overbid makes the old *maximum* the new price, and it covers
  the losers only because the old leader held it;
* `NoticeCorrect`; `RecordCorrect` and `StaleLeadersCorrect` from `Knowledge`;
* `ProxyCorrect`: the refinement, from `Auction` and one lemma for each branch;
* for any pattern of crashes: `CrashForgetsNoOffer` and `CrashPriceBound` (inductive as
  `Memory`, with the stores of a branch cut at any point), `PriceMonotonic`.

**`GlobalSyncProof`**, for any number of writers and titles, in three layers:

1. `Numbered` with the types: children are exactly `1..root`, a writer about to commit
   has drawn `root + 1` or will restart. It gives `NumbersCorrect`.
2. `Ordered`: titles increase through `published`, then what is left of `dummy`, then the
   buffer; while the copy is made it agrees with the buffer. It holds whoever dies and
   whenever the lock is given back, and gives `OrderCorrect` and `LossyFeedCorrect`.
3. `Locks` and `Complete`, under `HeldToCommit` and without deaths: from the test for the
   last sibling until the kill nobody commits, so the copy has all of the buffer. It gives
   `NoLoss` and `FeedCorrect`.

**`QueueSyncProof`**, for any writers, articles, titles, length of the queue and batch:

* `Ordered`: ordinals increase from what is published through the message in hand to the
  end of the queue, and none exceeds the last one sent. It gives `LossyFeedCorrect`.
* `Settled` is behind `QuietAgreementCorrect`. The property speaks of quiet states only; the
  invariant has to say of every state what the page *will* show of an article when queue
  and tick are through, and who may still change that: either it is the stored title, or
  somebody has a set of that article open. A writer that committed makes every other open
  set of the article begin again (`outdated`) and so send again, which is why it is enough
  that somebody is open. The lemma `SettersMove` is that step.

**`QueueTextProof`**, for topics and titles of any length: `TokenIsWord` says what `strtok`
returns (a token begins at the first byte that is no space, and goes up to the next space or
NUL), `ReceivedBytes` what is in the buffer after `mq_receive` wrote over any contents.
`Tokenised` joins them to what was taken from the message last received. `Extremes`, which
has the first and the last of a set of positions, is shared with `SyncModesProof`.

**`MqttFetchProof`**, for any topics, bodies and number of calls, in three layers:

1. `Linked`: nothing is under way before the connection is there, nor after the page has
   noticed that it is gone. A `send` throws only then, so the numbers used again after it
   meet no answer: `Numbered` is stated up to that point.
2. `Numbered` (call *c* goes under number *c* - 1; an entry goes with the answer or with the
   timer, and not otherwise), `Outstanding` (whoever has a packet under way is open and has
   only one) and `DiscardedWereLate` are inductive together (`Calls`): that an answer
   without an entry is late needs the first, that the entry is that of its call the second.
   They give `RequestsCorrect`.
3. `Told`: to what the page listens once the confirmations on their way have come is what
   the broker has it subscribed to or refused, and when a message comes the page listens to
   its topic.
   It gives `CallbacksAgreeCorrect`, and under `OnePerFrame` `NothingStrayCorrect`; without
   that the property is false, see above.

**`SyncModesProof`**, for any writers, articles, options, length of queue and measurement.
`Agreeing` is inductive; the lanes are looked at as one function (`Ways`):

* an article that is not disturbed has messages on at most one lane, and what the page will
  show once they are through (`WillShow`) is the stored title, unless a set of it is open;
* a set that is `fresh` and can commit has the same of its own title (`Promised`);
* a transaction that can commit and is not `fresh` leaves its article disturbed (`Handed`).

`Promised` is what puts an article right: its commit takes it out of `disturbed`. Each step
either moves messages without changing what there is to come (`Moves`), loses some of
articles that it disturbs, hands one over, or commits; there is a lemma for each.

**`AuctionPageProof`**, for any articles, titles, clicks and changes. The invariant is in
layers (`IInv`, `FreshInvariant`), each inductive with those before it:

1. `Numbered` with the types: a call is entered and answered under its number, so an answer
   says which article it is of.
2. `Heeds`: the page listens to what it is subscribed to by the time the notices come; it
   sets callbacks and never deletes one.
3. `Posted` and `Placed`: nothing overtakes on the connection and the list, with its links,
   comes after the calls of `set_callback`. So a request for an article is answered when all
   subscriptions are made, and nothing about an article that is opened can be missed.
4. `InOrder`: the last title of an article in the feed is the stored one.
5. `Fresh`: what the page shows, or an answer or a notice on its way to it says, of the
   price or the title of an article is what is stored, or there is news of it behind, or a
   title of it is due in the feed. What was published too early (`unheard`) is excepted.

`DetailShowsPriceCorrect` and `ListAgreesCorrect` are `Fresh` read at position 0, the second
with nothing under way.

Some of what is proved is not checked by a run of its own, because a listed refinement
says more: `LeaderHoldsMaximum` and `SecondPrice` lead to `ImplementsProxyAuction`,
`PublishedInOrderOnce` and `NothingLost` to the two refinements of `TitleFeed`.

Not proved: liveness and everything that needs fairness, which is out of the prover's
reach and stays with TLC (`TriggerReturns` and `EventuallyPublished` of both modes,
`EntriesEnd`, `LanesDrain`, `WaitsOnlyForReader`). The reader, the writers and the order of
JSON values are recursive over their data, which needs RECURSIVE operators that exclude the
SMT backend; they stay with TLC.

## 5. Findings

* `queue_text_intact`: of a title of several words only the first is published. `strtok`
  ends the token at the space behind it (`plugin.cpp:400`); "red bike" arrives as "red". The
  run's trace is such a title, text, space, text, published as its first byte of text.
  `README.md:14` says the data received are published.
* `auction_page_gap`: a title published between the answer to `get_articles` and the
  subscription (`aabay.js:12-27`) reaches nobody, is not retained, and leaves the list with
  the old title for good, against `README.md:6`.

Some more are plain from the code and need no run. A title whose message is longer than 8192
bytes is stored and never published, since `mq_trigger.c:53` retries only on `EINTR`; in
`QueueSync` that is `SendFails`, in `SyncModes` `TriggerMqFails`. Behind a title of one word
may come the remains of a longer message received before it in the same tick, since
`mq_receive` terminates nothing (`plugin.cpp:388-391`; `mq_trigger.c:47` sends no NUL). A
callback is entered although its subscription was refused (`mqtt-fetch.js:121-124`). The
writer of jsoncpp drops what stands behind a stray byte (`jsoncpp.cpp:4275`). The strict mode of jsoncpp accepts comments, see *JSON*
above. And `rx_title` (`aabay.js:56`) changes the
list item only, so an open detail view keeps the old title, while `rx_bid` changes the
price in both places.

## 6. Not modelled, and the plan

Left out for good: the vendored libraries other than jsoncpp, formatting and logging, clock readings, HTML
and CSS. The broker itself, YottaDB and the kernel appear as far as `src/` uses them.

Of jsoncpp: comments attached to values, offsets, error messages, `Path` and the iterators,
which `src/` does not use, the deprecated `Reader`, `validate`, and precisions below 17,
where the text of a real is a matter of the C library.

The plan, in order:

1. The page and the bid handler together: the answer and the status a page shows after a
   bid, with `Bidding` in place of `Bid`, and titles that are published before they are
   stored.
2. The FIFO demo, a first experiment that none of the modes uses.
