# A formal model of airfield-wx

airfield-wx is a live-conditions instrument for a small airfield: an ESP32 outdoor
unit (and optionally a separate wind station) serves its readings over HTTP, a
FastAPI server polls it, derives what a pilot wants to know, and a dashboard and a
tray widget show it.  This directory holds TLA+ modules that model the parts of the
system whose correctness depends on the order in which things happen or on which values
are there, the TLC configurations that check them, and proofs about them.

Everything here is translated from the source; `PROJECT.json` maps each definition
to the lines it stands for, lists the runs, and names for every property a "slip": a
small change of the model, of the kind a bug would make, that TLC finds to break it.

## The system

| Part | State | Operations | Interacts with | What makes it correct |
|---|---|---|---|---|
| TTL cache (`cache.py`) | entries, a lock and queue per key | `get_or_fetch`, `invalidate`, `clear` | called by every route that polls | one poll at a time per sensor; answers younger than the TTL; nobody waits for ever |
| Live read path (`outdoor_source.py`, `routes/current.py`) | `app.state.last_seen` | one handler per request, with awaits between its reads and writes | cache, wind resolver | timestamps that do not flatter; no going back in time |
| Wind resolver (`derivations/wind.py`) | none | `resolve_wind` | both read paths | stale wind is never shown as current |
| Sensor sources (`sensors.py`, `wire_format.py`) | fixture cursor and files | `poll` | cache, loggers | a poll ends, with a payload, None, or an exception |
| SQLite layer (`db.py`) | the file, its schema version | `init_db`, `_migrate`, inserts, queries | lifespan, loggers, routes | a served connection has the whole schema, whatever crash came before |
| Loggers (`logger_task.py`) | a task per log | poll, insert, sleep; fixture prefill | sources, SQLite | survive any failing poll; prefill at most once |
| Lifespan (`main.py`) | tasks, connection | start, shut down | all of the above | no task outlives the connection |
| Health (`routes/health.py`, `routes/sensors.py`) | none | report | log, `last_seen` | alarms when, and only when, logging has stopped |
| External feed (`external/`) | last observation, station cache | refresh loop, `get` | log (for the position), routes | keeps the last good observation; says how old it is |
| History and summary (`routes/history.py`, `routes/summary.py`) | none | query, bucket | log | every row in exactly one bucket |
| Airport and runway (`derivations/airport.py`, `runway.py`) | loaded airport data | resolve, solve | wind resolver | the favoured end is the one with the most headwind |
| Response builders, schemas, derivations, branding | caches of constant data | pure functions | routes | no value from a stale or missing reading; each from what it needs |
| Dashboard (`dashboard/app.js`) | last payloads, toggles | two refresh timers | `/current`, `/history` | the screen fits the last payloads and the toggles; old data is never without a banner |
| Tray widget (`widget/weather_tray.py`) | labels | a thread per refresh | `/current` | the temperature beside the icon is recent; "offline" goes away |
| Firmware (`sketches/*.ino`) | shared reading, three mutexes | five tasks | polled by the server | no torn reading, no deadlock |

What is hard in it: requests interleave at every `await` of one event loop, and read
the clock before waiting; polls may take longer than the lifetime of what they
bring; the server may be killed between any two SQL statements; loggers and
thresholds are tuned to each other; the firmware nests locks with timeouts; both clients
begin a refresh without waiting for the one before, and render answers as they come; the
external feed awaits an answer for a position the unit may leave meanwhile; and every
value of an answer depends on several others that may be missing, stale or malformed.

## Modules

* `CachePromise` - what the cache promises, without locks or expiry times.
* `TTLCache` - `get_or_fetch` step by step: one action per stretch of code between two
  suspending awaits.  `MCTTLCache` instantiates it.
* `TTLCacheProofs` - theorems about `TTLCache`.
* `LiveInstrument` - the request handlers with logging off, over `TTLCache`
  (`Cache == INSTANCE TTLCache`; the call that request `r` makes for sensor `k` is the
  slot `<<r, k>>`).  `MCLiveInstrument` instantiates it.
* `Database` - the SQLite file: schema objects, version, and the statements that
  `init_db` and `_migrate` run one by one, with crashes and power failures between.
  `DatabaseProofs` holds its theorems.
* `Station` - lifespan, logger tasks and prefill over `Database`
  (`DB == INSTANCE Database`).  `MCStation` instantiates it; `StationProofs` holds its
  theorems, over those of `DatabaseProofs`.
* `LiveInstrumentProofs` - theorems about `LiveInstrument`, from those about the cache.
* `OutdoorFirmware` - the tasks of the outdoor unit, their mutexes with timeouts, the
  shared reading, and the pulse interrupt of the anemometer.  `OutdoorFirmwareProofs`
  holds its theorems.
* `FeedConstants`, `ClientConstants` - the parameters of the feed and of the clients with
  the assumptions on them.
* `FeedPromise` - what a reader of the external block is promised, whatever the internet
  does.
* `ExternalFeed` - the refresh loop, the holder and the station cache, with restarts.
  `ExternalFeedProofs` holds its theorems.
* `Polling` - the timer both clients ask by, with its invariant and the lemmas that show it
  is one.  `Dashboard` and `TrayWidget` extend it.
* `Reading`, `Airport`, `History`, `Metar`, `Sky` - the computations of the request
  handlers and providers as operators without state: what a reading and its derived block
  hold, the airport answer and the runway solver, `/history` and `/summary`, the
  normalisation of reports, sun, season, light and moon.
* `Periphery` - composes these: `Feed`, `Dash` and `Tray` are instances over their own
  variables, `ReadingOf`, `AirportOf`, `HistoryOf`, `MetarOf`, `SkyOf` instances without
  any.  The parts meet only in the content of an answer, and each is given every answer the
  others could produce, so a behaviour follows one of them (`part`) while the rest stand
  still.  `MCPeriphery` instantiates it; `PeripheryProofs` proves the theorems about the
  clients and the handlers and lifts those about the feed.

### How they correspond to the code

**TTLCache.**  The body under `_meta_lock` never suspends, so the per-key lock is a
flag `owner[k]` and a FIFO `waiters[k]`, with asyncio's rule that a lock with waiters
is not taken out of turn.  `ReturnFast`, `MissAndFetch` and `MissAndWait` are the
three ways a call leaves its first look; `ResumeAndReturn` and `ResumeAndFetch` the
two ways it leaves the second; `FetchReturns` and `FetchRaises` end a poll.  Every
stored value carries the time its poll was begun, which the code does not keep and
the properties need.

**LiveInstrument.**  `StartRequest` reads `server_time`; `OutdoorRow` is
`outdoor_row_for_request` up to its next await, `OneSensor` and `GatheredPoll` the
polls of the other sensors, `RecordOthers` what follows the gather.  A reading has the
`stamp` a handler gave it and the time it was really `polled`.

**Database.**  The connection is in autocommit mode, so each statement is a
transaction and `script` holds those still to run.  `durable` is what a power failure
leaves: with a WAL and `synchronous = NORMAL` commits since the last checkpoint may be
undone, all of those after some point together.

**Station.**  Time is kept as ages: how long the current poll or sleep has lasted and
how old the newest row of this process is (capped where no threshold can tell ages
apart).  So no clock bounds a behaviour.  Polls take up to `MaxPoll`; a tick passes
only when no task is due.  The prefill does not await, so nothing but a crash comes
between its rows.  Tasks are cancelled and awaited one after the other, and one that
died re-raises there, which skips `db_conn.close()`.

**OutdoorFirmware.**  A task's mutexes are `Order(t)`, taken one per step and given back
in reverse; `TimeOut` may strike whenever the next one is not free.  A task works once it
has them all, in two steps where a field-by-field write or read could be torn.  The
window of the wind task and its `ReadPulses` and `ClearPulses` need no mutex;
`windPulseISR` is a load and a store.  Which core takes the interrupt is a constant
(`SameCore`): `portDISABLE_INTERRUPTS` masks the calling core, and `xTaskCreate` pins no
task.  Temperature and pressure stand for the first and last fields of a sample; the gps
task only takes and gives the mutex, since nobody else writes its fields.

**ExternalFeed.**  `Boot` and `Stop` are lifespan's start and end (or a crash: the holder
is in memory either way).  `Refresh` is one turn of the loop up to its await: it resolves
the reference position *before* the await and finds the station in the cache or asks for
it; `FetchLands` and `FetchFails` are what follows.  `RowLogged` is the logger moving the
position, `UpstreamChanges` the internet, `Tick` time.  Ages are capped at `Old` and
`LongAgo`, beyond which no threshold tells them apart.  `Block` is `build_external`: the
observation with its age against the refresh interval.

**Polling, Dashboard, TrayWidget.**  A timer begins a request every `Interval`; requests are
told apart by their age and end in any order within `MaxAnswer`, so they overlap and
overtake.  `Dashboard` keeps the last payload of `/current` and of `/history`, the feed
toggle, the units and the branding apart from what is on the screen; every handler renders
as the code does, and the screen is compared with what the state would render.
`TrayWidget` has a thread per tick that leaves its result in GTK's idle queue; the main
loop takes results one at a time and sets label and popup.

**Reading.**  Tables (`DeriveNeeds`, `ThermoNeeds`, ...) say which values each derived value is computed from
(`responses.py`, `derivations/readings.py`), and the operators say which exist for a given
set of keys of the unit's JSON, configuration, wind source and freshness.  Magnitudes are
left out except where a guard looks at them.

**Airport.**  Angles are steps of 30 degrees, wind components thousandths of the speed; what
the code compares is compared.  `AirportAnswerIsRight` checks the runway solver against
"most headwind" and the resolver against "the named airport, else the nearest".

**History.**  Times are seconds; a row has one value column and one uptime column, for the two
ways a bucket is made (mean or last).  Windows, bucket choice, statistics, trend, tendency,
light integral and degree days are computed as the code does.  The loop of `_bucket_rows` is
told by positions: the rows of a bucket at row i are those since the start of their interval
last changed (`current_bucket`), and a bucket is put out where it changes next or the rows end
(`Closes`); sums and selections are recursive functions over the number of rows read.
`HistoryIsWhatWasLogged` does not follow that loop: it asks of the answer, whatever groups it
includes, which logged rows lie in the interval each of its rows is stamped with.

**Metar.**  A malformed value is `Bad`, a missing one `None`; the normalisation of each
provider's report, ceiling, flight category, and the cross-check of two winds.

**Sky.**  Noon and half the length of the day are given, the rest of the sun's day, the
season, the sky condition and the scan for the next moon phase are computed as the code
does; the moon's cycle is 704 hours of even pace, of which the code's step is two.

## Runs

| Run | Instance | What it shows |
|---|---|---|
| `cache` | 3 calls, 1 key, TTL 2, clock to 5 | the properties of `TTLCache`, that every queued call ends, and the refinement of `CachePromise` |
| `cache_herd` (violated) | the same, with a prompt event loop | a poll of ttl seconds or more makes every queued call poll again |
| `live` | 2 requests, 2 sensors, TTL 2, max age 1, clock to 3 | stamps are off by less than the TTL, shown wind by less than `max_age_s` + TTL, clients never see the outdoor unit go back in time |
| `live_max_age` (violated) | the same | wind older than `max_age_s` is shown as current |
| `database` | every inheritable file | a served connection has the whole schema; only a half-altered or newer file is refused; a newer one is left alone |
| `database_resume` (violated) | the same | a migration that dies after its first ALTER can never be resumed |
| `station` | interval 3, poll up to 1, max age 4, 3 fixture rows, 3 configurations | no fixture row is written twice; one lost poll raises no alarm; only the prefill can kill a logger; no logger outlives the connection |
| `station_unplugged` (violated) | the same | an unplugged outdoor unit makes `/health` not ok |
| `firmware` | 5 tasks, 2 subsamples a window, 2 pulses, wind task on the core of the interrupt | no request sees half a sample or a mixed window; inner mutexes are never contended; `dataMutex` is always given back; each pulse counts once |
| `firmware_dual_core` (violated) | the same, wind task on the other core | a pulse between the read and the clear of the counter is lost |
| `periphery` | feed: 3 configurations, 2 positions, 2 stations; clients: interval 2, answers up to 3; handlers: inputs at the thresholds | an observation of a place left is marked stale in time, one lost refresh is none, and the feed keeps `FeedPromise` and recovers; the dashboard banners old data and its screen fits its state; the tray is recent and follows the server; no value of an answer comes from a stale, missing or malformed reading; airport, history, ceilings and sky are what they say |
| `periphery_moon` (violated) | the same | for over a day after a new or full moon the "next" one is the one just past |

**Bounds.**  Three calls are the fewest with one holding the lock and two queued, so
that the order of the queue and a second resumption matter; a clock of 5 with TTL 2
allows an entry to be stored, to expire and to be replaced while others queue.  Two
requests are enough for one to overtake another between its reading of the clock and
its writing of `last_seen`; their identities are interchangeable (symmetry).  The
instance of `live` has one sensor besides the outdoor unit, so the effect of a slow
sensor on the others of the same gather is not explored.  The intervals of `station`
keep the order of the defaults (two polls fit into an interval, an interval and a poll
into the maximum age: 60 s, 10 s, 90 s).  Two subsamples and two pulses tell the mean of
a window from its peak, and one window from the next; only the pulses are bounded, the
tasks run on.

In `periphery` a refresh interval of 2 with fetches of up to 1 lets a position change before,
during and after a fetch.  `StaleFloor` 7 puts the threshold just beyond three of these
(by default the two are equal, 900 s); the lags {0, 1, 5} are a report that is prompt, one
that just survives a lost refresh, and one that does not.  Answers of up to 3 with an
interval of 2 overlap and overtake; so do two requests for the history (`MaxHistory`).
The handlers keep nothing between two requests, so one request
is enough, with inputs chosen in `MCPeriphery` on both sides of every comparison the code
makes: JSON without any one or two keys, fields with a surveyed, a numbered, a crossing or no
runway, logs of up to three rows around a midnight and the edges of buckets, METARs with up
to two layers, the sun by the hour over two days, a year and a day of seasons, the moon by
the hour over a whole cycle.

**Fairness.**  Four properties need any.  `EveryCallEnds`: a call the lock was released to is
resumed (the event loop runs every ready callback), and a poll ends, because the HTTP
client has a timeout (`http_timeout_seconds`).  Nothing is assumed of how polls end,
of arrivals, or of the clock.  `DataMutexIsGivenBack`: a task of the firmware that is not
blocked runs on (every task sleeps in its loop, so FreeRTOS's priorities starve none).
Timeouts are not fair: the property shows that no wait has to be broken by one.
`FeedRecovers` and `TrayFollowsServer`: the event loop and the GTK loop run on and a request
ends, by its timeout at the latest (`FeedRuns`, `TrayRuns`); nothing is assumed of the
internet, of the server, or of restarts, and the properties speak of what follows once these
are well for good.  The `fetch` of `app.js` has no timeout of its own, so for the dashboard
`MaxAnswer` is an assumption on the browser; no liveness is claimed for it.

## What disagrees with the documentation

The six violated runs each check a sentence of the repository; `PROJECT.json`
("findings") quotes them.  They are: the upstream is *not* hit exactly once per miss
when polls are slow; wind up to `max_age_s + ttl_seconds` old is shown as current; a
partial migration *cannot* resume; unplugging the outdoor unit *does* make `/health`
not ok (when logging is on); read-and-clear of the pulse counter is atomic only on the
core that takes the interrupt; the "next" full or new moon is the one just past for some
39 hours after it.

Other things a reader of the code may want to know, met while modelling; the models do what
the code does:

* With logging off `/health` is never ok and `/sensors` lists the outdoor unit as offline,
  since both read the log; and the external feed, which takes the position from the log
  only, never sees the unit's live GPS.
* When GPS loses its fix the feed's reference jumps to the configured fallback
  (`task.py:35-51`), and the station found for a position is cached for the life of the
  process, also when it stops reporting.
* The wind speed and gust shown by the dashboard come from the unguarded `raw` block
  (`responses.py:97`, `app.js:302`): the freshness guard covers everything derived from wind,
  not these two numbers.
* An unknown ceiling or visibility counts as VFR, and is worded "Ceiling unlimited"
  (`app.js:462`).
* The cross-check's docstring promises "normal" where the code answers `None`
  (`providers.py:545-548`).
* `history.py:145-147` speaks of a bucket's mean timestamp; it gets its start.  Courses are
  averaged as numbers, also across north.
* After a gap of more than three hours the pressure tendency refers to the last row itself
  (`summary.py:61-63`), and is zero.
* `derive_reading` says that nothing raises (`readings.py:341-342`), but a vapour pressure
  far above the pressure makes the density negative, its fractional power complex, and
  `float` of that a `TypeError` (`readings.py:273`).  No working sensor reports such values.
* A late copy of the branding writes "loading" over data already shown (`app.js:140`), and
  a late success of `/history` refills a chart that was given up (`app.js:583-591`).
* The tray widget ignores `online`: its "Updated" is the time of the server, whatever the age
  of the readings.
* The retry counter of `outdoor.ino:533` reaches zero also when the last try succeeded.

## Proofs

Each of these proofs holds for every value of the constants that satisfies the named
assumptions of the module it is about; none has an unproved leaf.

**TTLCacheProofs** (`KeyAssumption`, `TimeAssumption`, `LoopAssumption`,
`AbsenceAssumption`), for any finite or infinite sets of calls, keys and payloads and any TTL:

* `TypeCorrect`, `FetchesAreSerialized`, `HitsAreCurrent`, `PollsAreSpaced`,
  `AnswersAreOrdered` - `TypeOK`, `SingleFlight`, `AnswersAreCurrent`, `NoEarlyRepoll`
  and `PollsLandInOrder` hold of every behaviour of `Spec`;
* `Implementation` - `Spec => Promise!Spec`, the refinement.

The inductive invariant adds to `TypeOK` that a call is fetching exactly when it is the
owner of its key's lock, that queued calls are waiting for the key they are queued
for, that an entry expires TTL after its poll was begun, that no `now`
is ahead of the clock, and that the poll outstanding for a key was begun no earlier
than the poll of the stored entry.  None of these follows from the properties, and
without the first two `SingleFlight` is not inductive: a call could be fetching while
the lock is free.  The action properties follow from the invariant in the state before
the step; the refinement proves that each action of `TTLCache` is an action of
`CachePromise` or a stutter.

**LiveInstrumentProofs** (`SensorAssumption`, `TimeAssumption`, `AbsenceAssumption`), for any
requests, sensors, TTL and maximum age:

* `TypeCorrect` - `TypeOK`;
* `StampsAreWithinTTL`, `ShownWindIsBounded` - `StampWithinTTL` and `WindIsBounded`, for a TTL
  that is not zero (the configuration does not refuse zero; with it an answer polled and
  delivered at one instant is off by nothing, which is not less than nothing);
* `RepliesKeepOrder` - `NoTimeTravel`.

The slots of the cache are the pairs of request and sensor, and every step of a handler is a
step of the cache or leaves it alone, so the cache's own inductive invariant carries over
from its proof.  To it are added: a handler waits only for the polls of its phase, and one
that is idle for none (`CallsFitPhase`); its `server_time` is no later than the beginning of
a poll of its own, and an answer out of the cache was still fresh then
(`AnswersFitServerTime`); what `last_seen` holds is stamped within the TTL (`StampsFit`); and
what was delivered of the outdoor unit is no newer than `last_seen`, which is no newer than
the entry of the cache (`OutdoorIsOrdered`).  `NoTimeTravel` rests on that last chain: it
is why two requests that overtake each other between cache and `last_seen` do no harm.

**OutdoorFirmwareProofs**:

* `InnerMutexesStayFree`, `ReadingsAreNotTorn` - `InnerMutexesAreFree` and `NoTornReading`, on
  either arrangement of cores and for any number of subsamples;
* `TypeCorrect`, `NoPulseIsLost` - `TypeOK` and `EveryPulseCountsOnce`, when the interrupt is
  masked on the core that takes it (`SameCore`; without it the second fails, as
  `firmware_dual_core` shows).

`LockInv` says that what a task holds is a prefix of its order and counts what it says it
does, so whoever holds an inner mutex holds `dataMutex`.  `ReadingInv` says that the
shared reading is torn only between the two halves of a write, while the writer holds the
mutex, and that the peak of a window is no more than its sum and its sum no more than so many
peaks.  `PulseInv` says where a pulse may be: in the counter, in the interrupt, or in a
window.

**DatabaseProofs** (`SweepAssumption`), for any file that may be inherited, any fixture and any
sequence of crashes and power failures:

* `TypeCorrect`, `SchemaIsComplete`, `RefusalIsDeserved` - `TypeOK`, `ServesCompleteSchema` and
  `RefusesOnlyUnfit`;
* `NewerIsSafe` - the action property `NewerIsLeftAlone`.

`ServesCompleteSchema` speaks only of the moment when `init_db` returns, so it says nothing that
the next step could use.  The inductive invariant (`IInv`) says for every moment what the
statements still to run will add: they are the last ones of the script begun (`LeftOf`), and
what the earlier ones made is in the file (`CreatingInv`, `MigratingInv`).  `Sound` says what
a version promises of a file, of the one in use and of the one a power failure would leave
alike; a file of version 1 may have some of the columns that the next migration adds, which
is why `RefusesOnlyUnfit` cannot say more.  `SameKind` says that no failure turns a newer file
into one of ours.

**StationProofs** (`SweepAssumption`, `TimeAssumption`, `ConfigAssumption`), for any
configurations, fixture, intervals, poll times and maximum age that keep the order of the
defaults:

* `TypeCorrect`, `SweepIsWrittenOnce`, `LoggersSurvive`, `LoggersHaveDatabase`,
  `WindStaysFresh` - `TypeOK`, `SweptOnce`, `OnlySweepKillsLogger`, `NoLoggerWithoutDatabase`
  and `CadenceKeepsWindFresh`;
* `ServesOnWholeSchema` - while lifespan has yielded the file has the whole schema;
* `OneMissIsForgiven` - `OneMissIsNoAlarm`, for a fixture of which, if any row of it is online,
  one of the last two is (`FixtureEndsOnline`).

Every step is a step of the database or leaves it alone, so `DatabaseProofs` carries over
(`DBProof`).  To it are added: what runs at each stage of lifespan (`StageInv`); that only
a fixture's outdoor logger sweeps (`SweepInv`); that what the prefill has inserted is no more
than the online rows it has passed, also in what a power failure would leave (`SweptInv`); the
age the newest of them has (`NewestInv`); and how old the newest row of a log can be at each
point of its loop, by the number of polls that have failed since (`Cadences`).  The hypothesis
of `OneMissIsForgiven` came out of the proof: the prefill stamps its rows `Interval` apart,
offline ones included, so a fixture that ends in two offline rows leaves a newest row that
is two intervals old before the first poll, and one slow failure then is an alarm.  The
repository's fixture satisfies it, and `MCStation` asserts it of the instance checked.

**ExternalFeedProofs** (`FeedAssumption`, `FeedsAssumption`) adds to `TypeOK` that the timer
fits the phase, that with at most one refresh lost the observation has been held no longer
than the fetches and sleeps since it landed take, that an observation of a place left is at
least as old as the move less one fetch, and that its source is the one in the station cache.

**PeripheryProofs**, for all values of the constants.  In `Periphery` a step of one part leaves
the others' variables alone, so:

* `LeftPlacesGrowStale`, `OneMayBeLost`, `PromiseIsKept` carry the feed's proof over, and state
  `MovedStationIsMarked`, `OneLostRefreshStaysFresh` and the refinement `KeepsItsPromise` (which
  needs `None` not to be an observation);
* `StaleDataShows`, `ScreenIsCurrent` (which needs `None` to be no chart) and `TrayKeepsUp`
  state `OldDataIsBannered`, `ScreenMatchesState` and `TrayIsRecent` (`PollingAssumption`,
  `HistoryAssumption`).  They rest on the invariant of `Polling`, that there is always an answer
  under way or a timer about to ask, so a request ends within an interval and the longest
  answer of the last that did (`QuietIsBounded`); from it the age of the payload in use is
  bounded by how long it is since an answer came, whatever order answers come in.

The handlers keep nothing between two requests, so their theorems need no invariant but that
what was asked is an input (`AskedItsOwn`); the work is in lemmas about the operators, for
every input and not only those that `MCPeriphery` lists:

* `StaleWindIsSilent` (`ReadingsAssumption`) - `StaleWindDrivesNothing`: for any keys of the
  JSON and any configuration, what is derived from a stale wind is what is derived from none;
* `ScreensTellWhatCame` (`ReadingsAssumption`) - `NothingIsInvented`: what the screens show
  can be followed back, table by table, to what was measured;
* `WorseWeatherIsNoBetter` (`ReportsAssumption`, and `NoListIsAbsent`: neither a missing nor
  a malformed value is a list of layers) - `WorseReportNeverImproves`, for any number of layers
  at any heights: the ceiling is the least base, so it falls with every layer added or lowered,
  and the category falls with it; and a wind once doubted stays so when it disagrees more;
* `AirportsAreRight` (`FieldsAssumption`) - `AirportAnswerIsRight`: for any number of runways
  with any headings, and any wind, the favoured end is one with the most headwind, and has no
  tailwind if a runway can be flown from both sides; the compass agrees with the wind
  components; and a number painted on a runway comes out as the magnetic heading it went in as;
* `SkyIsConsistent` (`SkiesAssumption`) - `SkyKeepsTime`: at every hour of every year the
  countdowns run to the next event, seasons end when announced, and the scan for the next phase
  of the moon always ends near one, close enough that it is called by that name;
* `HistoryIsTrue` (`LogsAssumption`) - `HistoryIsWhatWasLogged`: for a log of any number of
  rows and any query, each row of the window counts in exactly one row of the answer, no mean
  leaves the extremes of its bucket and no bucket those of a roll-up that covers it, and the
  tendency, slope, light and degree days are what the rows allow.

The last of these is about loops over the log.  The library's induction theorems cannot be
instantiated, so `AllNumbers` derives what is needed from the least natural number at which a
claim would fail (`LeastNatural`): a set that has zero, and with each number the next, has
them all.  With it `SelectIs` says what a selection holds and where it came from, and
`TotalBounds` bounds a sum.  `Closers` then shows that with rows in the order of time each
start is closed once, by a bucket of all its rows; `BucketsAre` puts the buckets together; and
`RisingSums` finds the slope of a rising series not negative, row by row: the sum of the gaps
in time times the gaps in value to the next row is what the slope's numerator grows by
(`GapStep`, `SlopeStep`).

The assumptions say that the inputs are of the shape the module declares (`Inputs`) and that
`None` and `Bad` are told from numbers and names.  `NoListIsAbsent` is a hypothesis and no
assumption because TLC cannot ask whether a model value is among the sets of layers of any
height; no model value is.

**Only model-checked.**  Liveness, which is out of this prover's reach (`EveryCallEnds`,
`DataMutexIsGivenBack`, `FeedRecovers`, `TrayFollowsServer`).  Every invariant and every safety
property of a step that a passing run checks is also proved.

## Not modelled

* Formulas on floating-point numbers: the polynomials of density altitude, humidity and heat
  index, solar and lunar positions, WMM variation, great-circle distances.  What is modelled
  is when they are evaluated and what becomes of the result.
* The schemas (types of the JSON), static files, the branding file, the bundled airport table,
  the URLs of the providers, drawing, wording and number formats of the clients, the menu and
  configuration file of the widget.
* `wind_station.ino`: one task and one mutex over the wind code of the outdoor unit; the
  two-actor hazards are those of `OutdoorFirmware`.  Of the outdoor unit, the GPS fields, the
  pages of the display and the WiFi watchdog.
* Demo and screenshot tooling.
* In `Database` the rows themselves: that ORDER BY returns what it says is SQLite's business.
* A wall clock that is set back: rows stamped in the future stay the newest until it catches up.

## Plan

What would come next, in this order:

1. A second gathered sensor in `live`, for the effect of a slow one on the others.
2. The fixture's cursor, shared by the logger and the live path; a first reading without wind
   and the GPS fields in `OutdoorFirmware`; the wind station's sketch over the same actions.
