# Formal models of the Miningcore web dashboard (webui2)

This directory holds TLA+ models of the dashboard in
`src/docker-deploy/webui2`. It has TLC configurations that model-check them
on small instances, and TLAPS proofs of their main invariants for every
instance.

## The system

The dashboard is a Next.js application in front of the Miningcore pool API.
Everything runs in one browser event loop, plus one Node route handler. The
hard parts are therefore not threads. They are asynchronous callbacks whose
answers arrive late and in any order, interleaved with React renders,
effects and user clicks.

| Part | Source | Stateful behaviour |
|---|---|---|
| Pool detail page, connection panel | `app/pools/[poolId]/page.tsx` 496-793 | Builds connection rows from the pool's ports. Probes every row's latency. Reconciles a group selection and an endpoint selection, each automatic or manually sticky. |
| Latency probe route `POST /api/latency` | `src/unnamed/part_005` 14-59 | Parses and validates the body and clamps the timeout. It then races the socket's connect, timeout and error callbacks for one answer. |
| Pool polling hook `usePoolsData` | `app/hooks/usePoolsData.ts` | Loads the pools at mount and every 30 s. Each component calling it has its own copy; within one copy, loads overlap only if a request outlives the interval (axios times out at 10 s), or through `refresh`, which no caller uses. |
| Blocks and payments loader | `page.tsx` 356-405 | Polls every 30 s and drops answers for a page the user has left (`active` flag). |
| Home latency panel | `app/components/StratumLatencyPanel.tsx` | Keeps its own latency map. A sync effect prunes the keys of locations that are gone. |
| Miner lookup panel, pools overview | `app/types/miningcore.ts` 115-753 | URL-parameter effect and lookup with a submitting flag; selected pool kept in the list |
| Dashboard | `app/components/layout/Navigation.tsx` 250-483 | Pool details have an `active` flag; the miner lookup has no stale-answer guard. |
| Connect page | `src/unnamed/part_003` | Sorts pools and ports. The default port is the middle one. |
| API client and config | `app/api/client.ts`, `part_005` 1-13 | axios with a 10 s timeout. Normalises the response envelope. |
| Static pages, layout, FAQ, deployment | `page.tsx` (home), `miners/`, `support/`, `part_000`-`part_004`, `entrypoint.sh`, `plan.md` | Rendering, formatting and deployment; no interleaving state. |

How the parts interact:
- The polling hook feeds `pools` to the pool page. A refresh changes the set of ports, and through it the connection rows.
- The connection panel and the home latency panel both call the latency route with a 4000 ms timeout.
- The route answers `{latency}` or `{latency: null, error}`. The panels turn that answer into a sample: `success`, `error` or `network-error`.

## Modules

### `PoolConnections`: the connection panel of the pool page

**State.** Each variable stands for a piece of the page:

| Variable | Code |
|---|---|
| `ports` | The keys of `pool.ports`, as last rendered |
| `latencyMap` | The `latencyMap` state |
| `measured` | `measuredRef` |
| `selectedGroupId`, `selectedEndpointId` | The selection state |
| `manualSelection`, `manualEndpoint` | The two refs |
| `dirty` | A render has happened whose effects have not run yet |

Three variables do bookkeeping that the code only has implicitly:
- `issued`: the probes dispatched per row.
- `inflight`: the probes `<<row, n>>` not yet answered.
- `shownProbe`: which probe the shown sample came from. It is a history variable.

**Data.**
- A row id is a port number, or the fallback row `'default'` that `connectionRows` shows when no port is published.
- Every row has the same host (`NEXT_PUBLIC_STRATUM_HOST`), so there is exactly one group, `Host`.
- Port names are abstracted to a set `Names`. Two subsets stand for what the two string tests accept:
  - `MidTierNames`: the names whose condensed lower case contains midrange, midtier or medium.
  - `MidNames`: the names that contain "mid".
- Latencies are a small set of numbers.

**Actions.**

| Action | Code |
|---|---|
| `Commit` | One flush of the page's effects, in their order: the group effect (656-675), the endpoint effect (677-710) and the probe effect (753-759). `TestLatency` is the synchronous part of `testLatency` (712-718). `dirty` stays set while the effects changed state, because React then renders and runs them again. |
| `ProbeSucceed`, `ProbeFail` | One answer of an in-flight probe (720-750). Answers arrive in any order. Each writes the sample with no check of which probe it answers. |
| `RemeasureAll` | The Retest button (761-766). It has no in-flight guard. |
| `SelectGroup`, `SelectEndpoint` | The user's clicks (768-786). |
| `Refresh(ps)` | A pool reload with a new port set (`usePoolsData.load`). |

User actions and refreshes are taken only when `~dirty`, because React flushes pending passive effects before it handles a discrete event. Probe answers commute with effects and need no such guard.

**Helpers.**
- `DefaultEndpointRow`, `FastestRow` and `PickEndpointForGroup` translate `defaultEndpointRow`, `bestLatencyRow`/`fastestEndpointFor` and `pickEndpointForGroup`.
- `FirstRow` is "first in list order". Object keys that are integers are listed in ascending order, and the fallback row is the only row when it is present.

### `LatencyRoute`: `POST /api/latency`

One request.
- `Receive` is the handler up to the `await`: the JSON parse, the host and port check, and the timeout computation `Math.min(Math.max(Number(t) || 3000, 500), 10000)`.
  - A port above 65535 makes `net.createConnection` throw `ERR_SOCKET_BAD_PORT` synchronously inside the promise executor. The model records this as an answer with status 500.
- The peer's behaviour is a nondeterministic `outcome` fixed at connect time: it accepts after some milliseconds, refuses, or stays silent.
- `OnConnect`, `OnTimeout` and `OnError` are the socket callbacks. Each one destroys the socket and resolves, so only the first runs. At equal times, connect and timeout may fire in either order.

### `LatencyPanel`: `StratumLatencyPanel` on the home page

**State.**

| Variable | Code |
|---|---|
| `avail` | The pool-port candidates present in `pools` |
| `latencyMap` | The `latencyMap` state: a status per location id, or `Absent` (no key) |
| `issued`, `inflight` | Probe bookkeeping, as in `PoolConnections` |
| `dirty` | `derivedLocations` changed and the sync effect has not run |

**Actions.**

| Definition | Code |
|---|---|
| `Derived` | `derivedLocations` (57-90): candidates with a non-zero port, in list order, at most `MaxLocations` (6 in the code), else `default-5108` |
| `SyncEffect` | The effect of lines 96-111: add an idle sample for new locations, delete vanished keys |
| `Test(l)` | The button (210-215), disabled while the entry is testing, with the synchronous part of `testLatency` (113-117) |
| `Answer(l, n, s)` | Every answer path of `testLatency` (119-148). It writes the key whatever the map holds by then. |
| `Refresh(a)` | A new `pools` array from `usePoolsData` |

### `Dashboard`: the pools dashboard in `Navigation.tsx`

The dashboard polls the pool list every 30 s. It also polls the blocks and payments of the selected pool every 30 s, from an effect keyed on `selectedPoolId`. The user may switch pools with the pool buttons and look up a miner. A blocks or payments section is abstracted to the pool of the fetch it shows and whether that fetch succeeded; a failure shows `[]` and an error message. `NoData` is the initial `[]` with no error. Miner stats are abstracted to the pool they were fetched for.

**State.**

| Variable | Code |
|---|---|
| `pools`, `selectedPoolId`, `loading`, `poolsError` | The states of the same names (239-243) |
| `epoch`, `effectPool` | The instance of the effects: bumped by every commit that changes `selectedPoolId`. `effectPool` is the `selectedPoolId` its closures captured. |
| `dirty` | `selectedPoolId` changed and the effects have not re-run |
| `poolLoads`, `details` | The `loadPools` and `loadDetails` calls in flight, each tagged with its instance. `details` also records the stage (blocks, then payments). |
| `blocksFor`, `paymentsFor` | `blocks`/`blocksError` and `payments`/`paymentsError` as shown (241-244). The effect without a selection empties the lists and leaves the error messages (`Emptied`, 294-299). |
| `minerLoading`, `lookup`, `minerFor` | The miner lookup: its flag, the request in flight, and the pool whose stats are shown |

**Actions.**

| Definition | Code |
|---|---|
| `RunEffects` | The cleanups and re-runs of both effects after a commit (256-302, 346): `active = false` for the old instance, a new `loadPools` and `loadDetails` |
| `PoolsTick`, `DetailsTick` | The intervals (288, 347). A tick waits for the previous load of its instance: each request times out after 10 s, against 30 s between ticks. |
| `PoolsLoaded(e, ps)`, `PoolsFailed(e)` | The answer of `loadPools` (259-285). It commits only while its instance is active, and picks the first pool if its closure saw none selected. |
| `DetailsAnswer(d, ok)` | One request of `loadDetails` (304-344). Blocks are fetched, then payments, and each is committed only while the instance is active. |
| `SelectPool(p)` | A pool button (556-567) |
| `MinerLookup`, `MinerAnswer` | `handleMinerLookup` (459-483) |

### `SectionView` and `SectionLoader`: the blocks and payments of the pool page

`SectionView` states what the two sections promise. There is a current pool, or none while a page is being mounted. A section only changes to a result fetched for the current pool, and leaving the page clears both sections. A result is abstracted to the pool it was fetched for and whether the fetch succeeded; a failure shows `[]` and an error message.

`SectionLoader` models `pools/[poolId]/page.tsx` 350-405 and the pool switcher at line 1226. It is shown to implement the view by `View == INSTANCE SectionView WITH current <- effectPool`. The view's current pool is the one the live effect instance captured, not the route's `poolId`, because between a commit and the effects' re-run the old instance is still active.

**State.**

| Variable | Code |
|---|---|
| `poolId` | The route parameter (314-315) |
| `epoch`, `effectPool`, `dirty` | The effect instances, as in `Dashboard` |
| `loads` | The `load` calls in flight: instance, pool, and which fetch is awaited |
| `blocks`, `payments` | `blocks`/`blocksError` and `payments`/`paymentsError` (350-353) |

**Actions.**

| Definition | Code |
|---|---|
| `RunEffects` | The cleanup of the old instance (401-404) and the new instance with its first `load` (356-399) |
| `Tick` | `setInterval(load, 30_000)` (400). It waits for the previous load: each request times out after 10 s. |
| `Answer(l, ok)` | One fetch of `load` (361-397). Each commit checks `active`. An inactive instance returns after a successful blocks fetch (364), but after a failed one it goes on to fetch the payments (374-379). |
| `Navigate(p)` | The switcher (1216-1227). The router either re-renders the page with the new `poolId`, or mounts a fresh page. The second case runs the old cleanup at once and starts with empty sections. The model allows both. |

### `PortOrder` and `ConnectPage`: the connect page (`src/unnamed/part_003`)

`PortOrder` holds the pure part, lines 96-117:
- `PortEntries` sorts a pool's ports by `varDiff.minDiff` ascending, then by port number. A missing minimum counts as `Number.MAX_SAFE_INTEGER`, represented by a constant above every minimum, since TLC's integers are 32-bit. The sort is defined by its result: the one arrangement of the ports in which each entry comes before every later one. The comparator orders distinct port numbers strictly and totally, so `entries.sort` returns exactly that arrangement. The definition avoids TLC's `SortSeq`, which the prover cannot expand.
- `MidPort` takes the entry at `Math.min(Math.floor(n / 2), n - 1)`.

`ConnectPage` models the page's selection:

| Definition | Code |
|---|---|
| `listed` | The pools of the last poll, each with its port map. `Refresh(f)` is a poll's `setPools`, and a poll may change a pool's ports. |
| `activePoolId`, `selectedPort` | The states of the same names (76-77) |
| `PickPool` | The pool effect's updater (82-88): the `?pool=` pool if listed, else the previous pool if listed, else the first by symbol |
| `PickPort` | The port effect's updater (111-117): the previous port if the active pool has it, else `MidPort` |
| `RunEffects` | One commit's effects, in order (79-118). The pool effect runs when `orderedPools` changed and returns early on an empty list. The port effect runs when `portEntries` changed, over that render's entries. A change of the active pool makes the port effect due again. |
| `ClickPool`, `ClickPort` | The pool button (176) and the port row and radio button (240, 248) |

`manual` is a history variable, not code state: the port the user picked and its pool. It is forgotten when the user picks a pool, or when a poll no longer lists that port. A refresh cannot interleave with pending effects: React flushes pending passive effects before rendering the next update.

### `MinerLookup`: the miner lookup panel (`app/types/miningcore.ts`)

`MinerLookupPanel` (lines 199-338) is shown on the home page and on `/miners`. Neither page passes `initialPoolId`, so its branches are left out. The panel owns a `usePoolsData` feed. A load settles within axios's 10 s timeout and the interval is 30 s (`part_005` line 12), so one load at most is in flight and `loading` says whether one is.

| Variable | Code |
|---|---|
| `pools`, `loading` | The hook's `pools` (as ids, in the API's order) and `loading` |
| `selectedPool`, `query`, `result`, `error`, `submitting`, `initialised` | The panel's states. `initialised` is `urlParamsInitialised`. A result is the lookup it answers; an error is which message. |
| `lookups` | The `fetchMinerStats` calls in flight |
| `dirty` | The pools or the selection changed and the effects have not run |
| `asked`, `touched` | History variables, not code state: the last lookup started, and whether the user has changed the pool select |

| Action | Code |
|---|---|
| `Poll`, `PollAnswer(list)`, `PollFail` | The hook's interval and `load` (`usePoolsData.ts` 22-54). An answer is a new array, so the effects are due. |
| `RunEffects` | The two effects of one commit, in order (233-272), each over that render's `selectedPool`. The URL effect runs once the pools are listed. It resolves `?pool=`, else the selection, else the first pool, and starts a lookup when `?wallet=` is not empty. The default effect fills an empty selection with the first pool. Its update is queued after the URL effect's, so it wins. |
| `StartLookup` | The synchronous part of `performLookup` (209-220): the argument check, then clearing the result and the error |
| `SelectPool(p)`, `TypeQuery(q)` | The select (312, disabled while loading or empty) and the wallet input (330) |
| `Submit` | `handleSubmit` (279-293). The button is disabled while `submitting` (335), and with it the Enter key's implicit submission. |
| `LookupAnswer(l, o)` | The answer of `fetchMinerStats` (220-230). Data becomes the result. `null` gives "not found". A throw sets the error and leaves the result as it is. |

### `PoolPageWidgets`: the pool page's switcher, hero lookup, price ticker and copy badge (`app/pools/[poolId]/page.tsx`)

These are the smaller stateful parts of `PoolDetailPage`. A switch between pools is either a re-render with the new `poolId` or a fresh mount, as in `SectionLoader`. A price effect instance is named by `epoch`; the instance whose number is `epoch` is live, and every older one has its `cancelled` flag set.

| Variable | Code |
|---|---|
| `poolId`, `loaded` | The route's pool, and whether `usePoolsData` has listed it (the `pool` the price effect reads) |
| `poolSearch`, `minerLookupValue` | The search box and the hero wallet input |
| `left` | The hero lookup navigated to `/miners/...`, or `None` |
| `epoch`, `effectCoin` | The live price effect instance, and the `coingeckoId` it was started for |
| `loads`, `loadCount`, `priceInfo` | The price fetches in flight (instance, coin), the loads of the live instance, and the price shown |
| `copiedField`, `timers`, `writes`, `clipboard` | The badge, the 1.5 s clear timers pending, the `writeText` promises pending per field, and whether the browser has the clipboard API |
| `dirty` | Effects pending |

| Action | Code |
|---|---|
| `PoolsArrive` | The pools feed lists the pool (317-327) |
| `RunEffects` | The price effect (903-939). With no `coingeckoId` it clears the price. Otherwise the cleanup cancels the old instance and a new one starts a load. The price is not cleared when the coin changes. |
| `PriceTick`, `PriceAnswer(l, o)` | The 5-minute interval (934), and a fetch's answer (912-932). A cancelled instance's answer is dropped. |
| `SetPoolSearch(t)`, `SwitchPool(p, fresh)` | The search box (1259-1264), and a click in the filtered list (333-341, 1216-1228) |
| `SetMinerLookupValue(q)`, `HandleMinerLookupSubmit`, `Back` | The hero form (1150-1162, 1293-1299), and coming back to a fresh pool page |
| `HandleCopy(f, throws)`, `WriteSettle(f, ok)`, `ClearCopied` | `handleCopy` (835-860): the `writeText` promise or the `execCommand` fallback, the promise settling, and a clear timer firing |

### `MCPoolConnections`, `MCLatencyRoute`, `MCLatencyPanel`, `MCDashboard`, `MCSectionLoader`, `MCConnectPage`, `MCMinerLookup`, `MCPoolPageWidgets`

These MC modules give the constants their values for TLC. They also define the properties of the violation runs, which compare the code with the spec.

### `PoolConnections_proofs`, `SectionLoader_proofs`, `MinerLookup_proofs`, `Dashboard_proofs`, `PoolPageWidgets_proofs`, `LatencyPanel_proofs`, `LatencyRoute_proofs`, `ConnectPage_proofs`

The TLAPS proofs, one module per component, each extending the component's module; see "What is proved" below.

## Runs

| Run | Checks | Shows |
|---|---|---|
| `connections` (pass, about 118k states) | `TypeOK`, `SettledSelection`, `TestingHasProbe`, `ListedRowsProbed`, `ManualEndpointSticky`, `ProbesAnswered` | Across refreshes that add and drop ports, out-of-order answers, retests and clicks, four things hold. (1) Once the effects have settled, the selection is the group `Host` and a listed endpoint, and it is the default row unless the user chose it. (2) A manual endpoint is never switched away while it is still listed, except by the user. (3) A row shown as testing always has a probe on its way, and every testing badge is eventually resolved. (4) Every listed row has been probed. |
| `connections_stale` (violation) | `LatestProbeWins` | Spec 3 says a new probe overwrites the old one. With a retest during a probe, the first probe's answer lands last and stays shown. |
| `latency_route` (pass) | `TypeOK`, `RequestAnswered` | Covers every body shape and peer behaviour. The enforced timeout is within [500, 10000], and every accepted request is answered by one of the racing connect, timeout and error callbacks. Which callback answers is fixed by its own guard, so no property restates it. |
| `latency_panel` (pass, ~55k states) | `TypeOK`, `TestingHasProbe`, `TestingOnlyListed`, `TestingResolves` | With a capped list and refreshes that drop and re-add locations: a testing badge has a probe on its way, belongs to a listed location once the sync effect ran, and is eventually resolved. |
| `latency_panel_oneprobe` (violation) | `OneProbePerLocation` | Spec 5: one probe in flight per endpoint. Test, drop the location, sync, re-add it, sync: the badge is idle again and a second probe goes out. |
| `dashboard` (pass, about 82k states) | `TypeOK`, `DetailsForSelected`, `LoadingSettles`, `ImplementsView` | Two pools, with selection changes racing both pollers' answers and the interval reloads. Blocks and payments are never committed for a pool the user has left. The sections implement `SectionView`, the promise of the pool page's loader, under `INSTANCE SectionView WITH None <- NoPool, current <- effectPool, blocks <- blocksFor, payments <- paymentsFor`. The pools and miner loading flags always clear. |
| `section_loader` (pass, about 64k states) | `IInv`, `ImplementsView`, `ShownCatchUp` | Two pools and three switches, as re-renders or fresh mounts, racing the answers of old instances. The page implements `SectionView`, so no answer of a left pool is ever shown. A load of the live instance fetches the pool that instance captured. Both sections catch up with the pool the user stays on. |
| `connect` (pass, about 9k states) | `SettledSelection`, `ManualPortSticky` | With no `?pool=`, polls list any subset of three pools, each with any of five port maps. Once the effects settle, a listed pool is active and the selected port is one of its ports, or null when it has none. A port the user picked stays selected while a poll still lists it. |
| `connect_url` (violation) | `ManualPortSticky` | With `?pool=btc`, the pool effect re-applies the parameter on every poll. In TLC's trace, btc is unlisted at first, the user is on doge and picks port 3333. The next poll lists btc again, with doge and its port 3333 still listed, and the page switches to btc. When btc shares the port number, the port is carried over instead of btc's own default; the `part_003:113` hazard records that behaviour. |
| `pool_widgets` (pass, about 527k states) | `TypeOK`, `NoPriceWithoutId` | Three pools, one without a coingecko id, with searches, switches (re-render or fresh mount), hero lookups, price ticks and answers and copies through both paths interleaving. Once the effects have run on a pool whose coin has no id, no price is shown: an answer of a cancelled instance never lands. |
| `miner_lookup` (pass, about 1.6k states) | `OneLookup`, `ResultOfLastLookup`, `IInv` | Two pools, pool lists that are empty, start with btc or hold only ltc, and a URL with `?pool=ltc&wallet=w1`. Pool answers, failures, pool and wallet edits, blank and empty wallets and every lookup outcome interleave. One lookup at most is in flight, and `submitting` is set exactly while one is. A result shown always answers the last lookup started, and none is shown while a lookup runs. |
| `miner_lookup_url` (violation) | `LookupForShownPool` | Same constants. The first pool answer lists btc first. The URL effect looks up ltc, while the default effect of the same commit selects btc. |

`latency_route` has `CHECK_DEADLOCK FALSE`: the handler of one request stops once it has answered.

For every property of a passing run, PROJECT.json names a mutant. A mutant is the operator of the code with a plausible bug: an off-by-one probe number, a reset that ignores removal or the manual flag, a failure path that leaves the badge, a refresh that prunes samples, a missing upper clamp. TLC finds the property violated for each mutant.

## Findings

Each violation run shows a disagreement between the code and the spec, or between the code and what its own comments and names say it does. The runs table above describes each trace; this is the list by place in the code.

| Where | Run | What |
|---|---|---|
| `pools/[poolId]/page.tsx:761` | `connections_stale` | A retest's older answer can land last and stay shown. |
| `StratumLatencyPanel.tsx:100` | `latency_panel_oneprobe` | A location dropped and re-added during a probe can be probed twice at once. |
| `part_003:83` | `connect_url` | `?pool=` overrides the user's pool and port at every poll. |
| `types/miningcore.ts:269` | `miner_lookup_url` | With `?pool=` naming a listed pool that is not the first, the select shows the first pool. The result shown is for the `?pool=` pool, but its "Pool" line and the next lookup use the first pool. |

Two defects were seen while modelling `PoolPageWidgets`. They have no violation run, and PROJECT.json lists them as hazards:
- `page.tsx:843`. When `writeText` rejects, the catch still sets "Copied!", and no timer clears it. The model keeps this path (`WriteSettle(f, FALSE)` schedules no clear), so the badge stays up until another copy's timer fires, or for good.
- `page.tsx:905`. When the coin changes by re-render (btc to bch), the price effect starts a new instance without clearing the old price. Until the first load answers, the old coin's price is shown under the new pool. TLC reaches this in 6 steps.

### Bounds, and why they are enough

- **Two ports** (`MCPorts = {1, 2}`), with refreshes to any subset, including the empty set and so the fallback row. Port 2 is named "Mid-range" with a varDiff minimum of 4096. Port 1 is named "Low" with difficulty 512. So the name rule and the difficulty rule both matter, a refresh can remove the default or the manual row, and a removed row can come back.
- **`MaxProbes = 2`.** A retest can overlap the automatic probe, which is the case behind the stale answer.
- **One latency value** in the passing run. The passing properties do not compare latencies.
- **The dashboard.** Two pools and `MaxEpochs = 3` selection changes. A switch can land while the old instance's blocks or payments request is in flight, and a switch back reuses a pool id under a new instance.
- **The pool page loader.** Two pools and `MaxEpochs = 7`, which allows three switches, each using two instance numbers in the worst case. A switch back to a pool gives it a new instance while the old instance's fetches of that same pool are still in flight.
- **The connect page.** Three pools and five port maps. The maps give odd and even lengths, ties of minima, missing minima, minima that reverse the number order, and no ports. All of them share port 3333, so a port can survive a change of pool or of map. Polls list any subset, so the `?pool=` pool can leave and come back.
- **The miner lookup.** Two pools. The pool lists are empty, `<<"btc", "ltc">>` and `<<"ltc">>`, so the first pool changes and the selected pool can leave the list. One wallet, plus a blank and an empty query, takes both sides of the argument check. The URL names ltc and a wallet, so the URL effect's lookup runs for a pool that is not first.
- **The pool page widgets.** Three pools, two sharing a search term and one with no coingecko id, so a switch can change the coin, keep it unset, or find it filtered out. `MaxEpochs = 6` allows the mount, the pools' arrival and one or two navigations, each using up to two instance numbers. `MaxLoads = 2`, so a tick's load can overlap the first. One copy field and `MaxPending = 1` still cover both copy paths, a rejected write and a clear timer racing a new copy.
- **The route.** Port and timeout values take every branch of the guards: NaN, 0, below, inside and above the range. Connect times are 100 ms, the default timeout 3000 ms exactly, and more than the largest timeout.

### Fairness

- `Commit` is weakly fair: React runs the effects after every commit.
- Each probe's answer is weakly fair: `fetch` settles, because the route always answers within its clamped timeout (`RequestAnswered`).
- Refreshes and clicks have no fairness.
- In the dashboard, the effects, the pools interval and every request's answer are weakly fair: each request has a 10 s axios timeout. The details interval needs no fairness for the properties checked.
- The miner lookup is checked only for safety, so it assumes no fairness.
- In the pool page widgets, `RunEffects`, the settling of a `writeText` promise and each clear timer are weakly fair: React runs effects after each commit, the browser settles the promise, and `setTimeout` fires. A price fetch is a plain `fetch` with no timeout, so it has no fairness. The run checks only safety properties, so none of this fairness is relied on; it records the code's scheduling.
- In the route, Node's event loop runs every ready callback: `WF_vars(Next)`.

## What is proved

### `PoolConnections_proofs`

The proofs hold for every finite set of ports, every port configuration and every bound. They rest on the assumptions `PortsAssumption`, `IdsAssumption`, `ConfigAssumption` and `BoundsAssumption`.

`PortsAssumption` says only that the ports form a finite set of naturals. The lemma `LeastPort` proves that a non-empty set of ports has a least one, using `WFMin` of `WellFoundedInduction`. `FirstRow` needs this to be a listed row.

- **`TypeCorrect`**: `Spec => []TypeOK`. This includes the claim that no row ever gets more than `MaxProbes` probes.
- **`SafetyInvariants`**: `Spec => [](TestingHasProbe /\ SettledSelection /\ ListedRowsProbed)`.
  - These properties are not inductive on their own. The inductive invariant `IInv` adds two facts:
    - A never-measured row has had no probe. So the probe effect's probe is number 1, which is needed for `TestingHasProbe` and the bound.
    - A measured row is never `idle` again. This is needed for `ListedRowsProbed` after a refresh brings back a row that `measuredRef` remembers.
  - Lemmas about the helpers carry the selection part:
    - `DefaultInRows`: the default row is a listed row.
    - `AutoIsDefault`: `pickEndpointForGroup` of the single group is the default row.
  - The step proof has one case per action.
- **`TestingHasProbeInvariant`** and **`ListedRowsProbedInvariant`**: each of those two invariants on its own, from `SafetyInvariants`.
- **`ManualEndpointStickyHolds`**: `Spec => ManualEndpointSticky`, the action property. The lemma `StickyStep` shows it for one step of `Next`:
  - only a commit's endpoint effect could change the port;
  - it recomputes the port only when `manualEndpointRef` is unset or the port is gone;
  - a commit does not change the ports.


### `SectionLoader_proofs`

These proofs hold for every set of pools and every bound `MaxEpochs`, from `LoaderAssumption` (`None` is not a pool id, and `MaxEpochs` is a positive natural).

- **`LoadsInvariant`**: `Spec => []IInv`. `IInv` is `TypeOK /\ LoadsOfInstance`. It holds that:
  - every load in flight belongs to an instance that has started;
  - a running instance has a number;
  - a load of the live instance fetches the pool that instance captured.

  The invariant is inductive as it stands. There is one lemma per action, and in each one a per-load step.
- **`Refinement`**: `Spec => ImplementsView`, where `ImplementsView` is `View!Spec`.
  - `Init` maps to the view's `Init`.
  - `RunEffects` maps to `Select(poolId)`.
  - An active answer maps to `ShowBlocks` or `ShowPayments`. `IInv` is what says the answer is for the current pool.
  - A fresh mount maps to `Leave`.
  - Everything else (ticks, inactive answers, a re-render) is a stutter of the view.

### `MinerLookup_proofs`

These proofs hold for every set of pools and wallets, every set of pool lists and every URL, from `LookupAssumption`.

- **`OneLookupInvariant`**: `Spec => []OneLookup`.
- **`ResultInvariant`**: `Spec => []ResultOfLastLookup`.

Both follow from the inductive invariant `IInv`, which TLC also checks in `miner_lookup`. `OneLookup` is not inductive on its own: the URL effect starts a lookup without looking at `submitting`. `IInv` adds two facts:
- A lookup in flight is the last one started.
- Before the URL effect has run, nothing is selected or fetched. If the effects have also settled, no pool is listed yet.

So the form, which needs a selected pool, cannot submit before the URL effect's lookup, and after it the button is disabled. The lemma `StartLookupIInv` covers `performLookup`, which both the effect and the form call. There is one lemma per action.

- **`InvariantHolds`**: `Spec => []IInv`, the invariant that `miner_lookup` checks.

### `Dashboard_proofs`

These proofs hold for every finite set of pool ids (naturals) and every bound `MaxEpochs >= 1`, from `DashboardAssumption`.

- **`TypeCorrect`**: `Spec => []TypeOK`. This includes the claim that the pool `PoolsLoaded` selects, `poolList[0].id`, is a listed pool. The lemma `FirstPoolListed` proves that a finite set of naturals has a least element, using `WFMin` of `WellFoundedInduction` on `<` over `Nat`.
- **`DetailsForSelectedInvariant`**: `Spec => []DetailsForSelected`.

`DetailsForSelected` is not inductive. An answer of the live effect instance commits the pool that instance captured. For that pool to be the selected one, `IInv` adds two facts:
- Every load in flight is tagged with an instance started so far, and a load of the live instance fetches that instance's pool. So a new instance finds no load already carrying its number.
- Once the effects have run, the captured pool `effectPool` is the selected pool.

There is one lemma per action.

`IInv` also states that before the first selection nothing has been loaded or shown. A selection never returns to null, so `DetailsForSelected` survives the effect run without a pool: that run leaves an earlier failure's error message in place, and the code does not clear it.

- **`Refinement`**: `Spec => ImplementsView`. The dashboard implements `SectionView`, with `effectPool` as the current pool.
  - An effect run for a pool is `Select`.
  - The effect run without a pool changes nothing in the view, by `IInv`.
  - A committed answer of the live instance is `ShowBlocks` or `ShowPayments`. `IInv` gives that its load fetched `effectPool`.
  - Every other step leaves the view unchanged.

### `PoolPageWidgets_proofs`

These proofs hold for every pool set, every coin map, every set of search terms and wallets, and all bounds with `MaxEpochs >= 2` and `MaxLoads >= 1` (`WidgetsAssumption`). Both bounds are the least that let the page run at all:
- the mount and the arrival of the pools already start two effect instances;
- the price effect's first run starts load number 1.

The assumption also says that `None`, which stands for null, is no `/miners` URL.

- **`TypeCorrect`**: `Spec => []TypeOK`.
- **`NoPriceWithoutIdInvariant`**: `Spec => []NoPriceWithoutId`.

The epoch bound of `TypeOK` is not inductive. A navigation is guarded by `epoch + 3 <= MaxEpochs`, but the effect runs it leaves pending start new instances later. `IInv` counts them: `EffectRunsLeft` is the number of effect instances the pending commits will still start (at most 2), and `epoch + EffectRunsLeft <= MaxEpochs`.

For `NoPriceWithoutId`, `IInv` adds four facts:
- A price load of the live instance is for the live instance's coin.
- Once the effects have run, the instance's coin is `coingeckoId`.
- A coin instance has a number.
- While the price effect last ran for a pool without a coin id, no price is shown.

So a late answer either belongs to a dead instance, which `cancelled` drops, or carries the coin whose absence cleared the price.

There is one lemma per action. Two further lemmas, `PriceStepType` and `CopyStepType`, carry the type part of the steps that touch only the price or only the copy badge.

### `LatencyPanel_proofs`

These proofs hold for every set of candidate locations, list order and bound, from `PanelAssumption`. The assumption includes that `Absent` (no key in `latencyMap`) is not a status.

- **`TypeCorrect`**, **`TestingHasProbeInvariant`** and **`TestingOnlyListedInvariant`**.

The three invariants are inductive together:
- only `testLatency` sets "testing", and it sends a probe numbered within the bound, for a listed location, after the sync effect;
- an answer writes a final status to its own location only;
- the sync effect only deletes the keys of unlisted locations.

None of the proofs looks at which locations `Derived` computes.

### `LatencyRoute_proofs`

These proofs hold for every set of port values, timeout values and connect times, from `ValuesAssumption`.

- **`TypeCorrect`**: `Spec => []TypeOK`. The step of `ReceiveIInv` that starts the probe shows that the clamp `Math.min(Math.max(Number(t) || 3000, 500), 10_000)` lies in [500, 10000] whatever `t` is.

`TypeOK` is inductive as it stands: the validation answers, the clamped timeout and the three callbacks' answers all keep their types.

### `ConnectPage_proofs`

All of these hold for every pool set, symbol order and set of port maps. The only assumption added to the constants is that a port's minimum is a number or missing (`ConnectAssumption`), which is what `varDiff.minDiff` is.

The port order comes first, as lemmas about `PortOrder`'s operators:
- `BeforeOrder`: the comparator is a strict total order on port numbers.
- `RankRange`, `RankMonotone`, `RankInjective` and `RankOnto`: a port's rank is the number of ports before it. Ranks are distinct and cover 0..n-1. The last step uses `FS_Injection`: an injection between two finite sets of the same size is onto.
- `SortedExists`: listing the ports by rank sorts them, so the `CHOOSE` in `PortEntries` has a witness.
- `SortedRank`: in any sorted arrangement the i-th port has rank i-1.
- `MidPortIsMiddle`: the default port is listed, and exactly `floor(n / 2)` ports come before it. `PickPortIn` uses it to show that the port effect picks a port of the active pool.

None of this needs induction. The counting arguments go through the cardinality facts of `FiniteSetTheorems`.

- **`TypeCorrect`**: `Spec => []TypeOK`.
- **`SettledSelectionInvariant`**: `Spec => []SettledSelection`. This holds with or without `?pool=`.
  - `SettledSelection` is not inductive by itself, because the two effects run in different commits.
  - The inductive invariant is `TypeOK /\ PoolsHeld /\ PortHeld`.
  - `PoolsHeld`: once the pool effect has run, a listed pool is active whenever one is listed.
  - `PortHeld`: once the port effect has run, the selected port fits the active pool.
  - A refresh makes the port effect due again, unless the active pool stays unlisted; `PortHeld` is then kept because the port is already null. A change of the active pool also makes it due again.
- **`ManualPortStickyHolds`**: `ASSUME Requested = None PROVE Spec => []ManualPortSticky`.
  - The hypothesis is that the page is opened without `?pool=`. With the parameter, the property fails, and the `connect_url` violation run shows how.
  - The inductive invariant `ManualHeld` states that the user's last pick is listed and still selected, whether or not the page is settled.

What is only model-checked, and why:
- The liveness properties (`ProbesAnswered`, `RequestAnswered`, `TestingResolves`, `LoadingSettles`, `ShownCatchUp`). Liveness under fairness and ENABLED is beyond TLAPS here.
- The properties of the violation runs, which fail by design.

## Plan for the rest of the project

1. Compose the `usePoolsData` feed of `MinerLookup` with `PoolConnections`, so that refreshes come from completed loads.

## Not modelled

- The pools overview table (`types/miningcore.ts` 471-494): it keeps the selected pool in the list. There is no run slot left for it.
- The badge timers' timing: the model counts the timers but has no clock, so it cannot say which timer clears which copy.

- Rendering, formatting, CSS and the static pages.
- The Docker entrypoint and the documents.
- The axios transport itself, which is only the source of errors and timeouts.
- `retryGroup`, because no button calls it.
