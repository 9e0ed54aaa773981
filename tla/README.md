# A TLA+ model of the receiver-side bandwidth estimator

This directory models `thesyncim/bwe`: the delay-based (GCC) bandwidth estimator
of `pkg/bwe` and the Pion interceptor of `pkg/bwe/interceptor` that feeds it and
sends its estimate back as REMB. The modules are checked with TLC on small
instances; the `*Proofs.tla` modules prove properties for every value of the
constants with TLAPS. `PROJECT.json` maps every definition to the lines it
models and lists runs, mutants, findings, hazards and theorems.

1. [The system](#1-the-system)
2. [The modules](#2-the-modules)
3. [The runs](#3-the-runs)
4. [Where the code differs from what it says](#4-where-the-code-differs-from-what-it-says)
5. [What is proved](#5-what-is-proved)
6. [What is left out, and the plan](#6-what-is-left-out-and-the-plan)

## 1. The system

A packet travels this way:

    reader goroutine            BandwidthEstimator (one mutex)
    processRTP ──OnPacket──▶  ssrcs, RateStats.Update
      now := time.Now()       DelayEstimator.OnPacket
      touch stream state        InterArrivalCalculator ─▶ filter ─▶ OveruseDetector
      find extension          RateStats.Rate ── no rate: return early
      pooled PacketInfo       RateController.Update ─▶ estimate
    rembLoop goroutine          │
    ticker ──MaybeBuildREMB──▶ REMBScheduler ──▶ packet ──▶ writer.Write, onREMB
    cleanupLoop goroutine
    ticker ──▶ Range over the sync.Map of streams, Delete the inactive ones

The interop server (`cmd/chrome-interop/server`) answers offers with peer
connections that use the interceptor.

| Component | State | Operations | What makes it correct |
|---|---|---|---|
| `RateController` | AIMD state, rate, last update | `Update`, `Reset` | the estimate stays positive and in its band; no growth straight after an overuse; growth bounded by the time that passed |
| `OveruseDetector` | adaptive threshold, overuse region (start, counter), hypothesis | `Detect`, `Reset`, `SetCallback` | overuse exactly when sustained; no stale verdicts for long; threshold in bounds and moving the right way |
| `InterArrivalCalculator` | previous and current packet group | `AddPacket`, `Reset` | groups really are separated; a variation equals the true one across counter wraps |
| `TrendlineEstimator` | smoothed delay, bounded history, count, reference time | `Update`, `Reset` | the trend is the regression of the last calls |
| `KalmanFilter` | estimate, error covariance, measurement noise | `Update`, `Reset` | no overshoot; an outlier cannot disable it |
| `DelayEstimator` | calculator, one of the two filters, detector | `OnPacket`, `Reset` | a path without growing delay is never overused; a verdict is handed on fresh or not |
| `RateStats` | samples in a slice, their total | `Update`, `Rate`, `Reset` | the total is the samples' sum; the samples are those of the window |
| `REMBScheduler` | last value and time sent | `ShouldSendREMB`, `BuildAndRecordREMB`, `MaybeSendREMB`, `Reset` | decreases soon told; regular refresh |
| `BandwidthEstimator` | all of the above, estimate, SSRCs, last packet time | `OnPacket`, `GetIncomingRate`, `MaybeBuildREMB`, `Reset`, getters | parts agree with each other after any sequence of calls |
| Interceptor, REMB path | loops, WaitGroup, `closed` channel, writer | `BindRTCPWriter`, `BindRemoteStream`, `rembLoop`, `maybeSendREMB`, `Close` | `Close` returns and leaves no loop; the remote sender gets the settled estimate |
| Interceptor, streams | sync.Map SSRC → last packet time | `BindRemoteStream`, `UnbindRemoteStream`, `processRTP`, `cleanupInactiveStreams` | inactive streams go in time, bound ones only after a pause |
| Interceptor, RTP parsing, with the `PacketInfo` pool | two atomic extension ids, pool | `BindRemoteStream`, `processRTP`, `getPacketInfo`, `putPacketInfo` | every packet is fed with its own time, on one clock |
| Interop server | mutex, running, address, peer connection per request | `Start`, `Shutdown`, `Addr`, `HandleOffer` | what runs is served; nothing blocks for ever; connections are closed |
| factory, REMB encoding, clock, soak runner, test utilities | see section 6 | | |

They interact by calls under the estimator's mutex (`BandwidthEstimator` and all
below it), and through shared state without it: the `sync.Map` and the
`atomic.Value` of each stream, the extension ids, the pool, the `closed` channel,
the `WaitGroup` and the writer under `Interceptor.mu`.

What is hard here:

- **Two clocks and many readers.** A reader stamps its packet before it competes
  for the lock. Arrival times reach `RateStats`, `InterArrivalCalculator` and
  `RateController` out of order, while the detector reads the clock itself.
- **One estimator for all streams.** The ids of the extensions are those of the
  first stream that has them, and a packet's time comes from either of two
  extensions, which may be of two clocks.
- **Stale verdicts.** While a burst accumulates, the detector's last verdict goes
  to the controller with every packet, and an early return may drop it.
- **Check-then-act without a lock.** The cleanup loop checks a stream and deletes
  its key in two steps.
- **Recorded before done.** A REMB counts as sent before it is written, and the
  error of the write is dropped.
- **Tickers against intervals.** The REMB ticker's period is the interval the
  scheduler compares with, so that jitter decides whether a tick sends.
- **Shutdown.** `wg.Add` may race `wg.Wait`, `Close` waits for a write; the
  server's `Shutdown` holds its mutex while it waits for requests.
- **Failing steps.** `HandleOffer` returns from the middle of a negotiation.
- **Arithmetic at the edges.** Wrapping 24-bit counters, truncation, the order of
  two clamps, outliers, elapsed times that are negative or very long.

The full list, each at its line, is `hazards` in `PROJECT.json`.

## 2. The modules

A duration or instant is a number of ticks of a unit each MC module chooses;
`-1` (`NoTime`) is the zero `time.Time`. A `float64` computation is fixed-point
with named denominators, truncated where the code truncates to `int64`.
Variables commented *history* are not in the code: properties are stated with
them. Definitions commented *mutation* are plausible wrong versions of the one
that follows; no action uses them.

| Module | Models | Correspondence |
|---|---|---|
| `RateController` | `rate_controller.go` | `rc` is the struct, `NewController` the defaults of the constructor, `Update` is `transitionState`, `adjustRate`, clamp and ratio limit in their order. `Eta` is the function Δt ↦ η^Δt. Any signal, rate and instant may come next. |
| `OveruseDetector` | `overuse.go` | `d` is the struct, `Detect` is `updateThreshold` and the switch; `reported` is what the callback knows; `run` records how long detections have been above the threshold. |
| `InterArrival` | `interarrival.go`, `timestamp.go` | `ia` holds the two groups; `sent` is the true send time of which a packet carries the remainder; `truth` the true send times of the groups, `measured` the variation computed from them. |
| `Trendline` | `trendline.go` | Operators on the filter's record, in fixed point: `Smoothed`, `KeptWindow`, `LinearFitSlope` are the steps of `Update`. `IsReferenceTrend` is the reference definition (the smoothing's weights in closed form, rounded once; the slope over all pairs of points). |
| `Kalman` | `kalman.go` | Operators on the filter's record, in fixed point: capped innovation, slow average of the noise, gain, covariance. Quotients round down. |
| `DelayEstimator` | `estimator.go` | `EXTENDS InterArrival` and instantiates `Kalman`, `Trendline` and `OveruseDetector`. `OnPacket` is `AddPacket`, then, for a measurement, the filter that `filterType` names and the detector. `oneWay` records the true one-way delays, `inputs` the calls of the filter. |
| `SlidingWindow` | what `RateStats` promises | Abstract: every sample of the window is held, an older one only for as long as calls have come late (`lateness`), and the rate is a fresh sum over a span short by at most twice that. With calls in order all of it is exact. |
| `RateStats` | `rate_stats.go` | `rs` is slice and total. `removeExpired` stops at the first fresh sample. `Skew` bounds how far a call's time lags the latest; `lateness` records how far one has. |
| `RembScheduler` | `remb_scheduler.go`, the ticker of `rembLoop` | `s` is the struct. `Tick` is `MaybeBuildREMB` on a ticker that fires between `nextTick` and `nextTick + Jitter`; `Packet` any change of the estimate. |
| `BandwidthEstimator` | `bandwidth_estimator.go`, `estimator.go` | `EXTENDS RateController`, whose `Update` and `Reset` are conjuncts of its actions, and composes `InterArrival`, `OveruseDetector`, `RateStats` and `RembScheduler` by `INSTANCE`, using their state functions (`IA!Added`, `OD!Detected`, `RS!Updated`, `Sched!MaybeSendREMB`) so that `OnPacket` is one action as it is one critical section. It has two disjuncts: with and without a rate (the early return). Its own `Init`, `Next` and `Spec` are `EstimatorInit`, `EstimatorNext`, `EstimatorSpec`; anyone may call it at any time. |
| `EstimatorLoop` | the estimator under the loops of `interceptor.go` | `EXTENDS BandwidthEstimator` and adds the ticker: `Tick` is a round of `rembLoop`, taken up to `Jitter` late, `Called` a call by a reader or the owner, `Asked` the owner's own `MaybeBuildREMB`. `knownSince` and `overstatedSince` are histories. |
| `StreamTracking` | streams in `interceptor.go`, `stream.go` | A `sync.Map` operation, an `atomic.Value` load or store is one action. An instant is represented by its age, so that time passes for ever in a finite model. `silence` and `sincePause` are histories: the time since a packet was last *stamped* (`time.Now` in `processRTP`), which the cleanup loop cannot see, and since that was last a pause. |
| `RtpReceive` | `processRTP`, the ids of `BindRemoteStream`, `pool.go`, the conversion of `timestamp.go` | Each reader has a place between its steps on shared state: two compare-and-swaps, two loads, get, feed, put. `offer` is what a stream has negotiated, which is where its sender puts its timestamps. |
| `RembLoop` | the loops of `interceptor.go` | Each goroutine has a place between its atomic steps: select, build (under the estimator's lock), write, callback, cleanup, exiting. The scheduler is reduced to "due" and "less than last sent". Writes may always fail, and `Bind` calls may overlap or follow `Close`: `lost` and `late` record it. |
| `InteropServer` | `server.go`, `handler.go` | `Start`, `Shutdown` under the mutex, `Serve` the goroutine, one action per step of `HandleOffer`, each of which may fail. Its initial state, next-state relation and specification are `ServerInit`, `ServerNext`, `ServerSpec`. `net/http` and the peer connection are external, as the code uses them. |

`RembLoop` abstracts `REMBScheduler` (whose times `RembScheduler` models).
`EstimatorLoop` is not an implementation of `RembScheduler`, in which any change
of the estimate may come next and every tick asks the scheduler: without a source
`MaybeBuildREMB` does not ask it, and `Reset` of the estimator leaves the
scheduler its last value. The scheduler's bounds are therefore stated again for
the composition, for as long as a source is known.
`BandwidthEstimator` takes any member of `FilterOutputs` for the filter's answer
and leaves the send time out, which matters through the filter alone;
`DelayEstimator` has the same pipeline with send times and filters concrete.

Some assumptions of the model are about how the code is used: the detector's
callback and the scheduler are set before the first packet; `Close` is called
once and not by `onREMB`; an SSRC has been seen before the REMB loop runs (in
`RembLoop`; `BandwidthEstimator` models the condition); `BuildREMB` does not
fail, which holds for estimates that are not negative; a stream is bound once
(in `RtpReceive`; `StreamTracking` models streams that come and go).

## 3. The runs

Every run is exhaustive for its bounds. Deadlock is checked where the model has
no end; the bounded clocks of `OveruseDetector` and `RembScheduler` end, and
their configurations say so.

| Run | Checks | Shows |
|---|---|---|
| `rate_controller` | `EstimatePositive`, `EstimateInBand`, `NoGrowthAfterOveruse`, `GrowthPerUpdateBounded` | whatever signals, rates and instants come, in order or not, the estimate is positive, lies between the minimum or what the rate limit allows and the ceiling, never grows in the update after an overuse unless the overuse itself raised it, and grows by no more than a second's worth of η |
| `overuse_detector` | `SustainedOveruse`, `UnderusingStaleBounded`, `DepartureIsReported`, `OveruseNotMissed`, `ThresholdTracksOverShortGaps` | overuse is reported exactly for estimates that stay above the threshold long enough and are not falling; an underuse report contradicted by the estimate does not outlive the overuse time; overuse and underuse are never in force without the callback knowing, whatever resets come between; over short gaps the threshold moves to the estimate and not past it |
| `delay_estimator` | `GroupsSeparated`, `DelayExact`, `TrendIsReference`, `KalmanWithinMeasurements`, `NoiseGrowthBounded`, `SteadyPathIsNormal`, `OveruseMeansDelayGrew` | through wraps, reordering and resets: groups never touch and each variation is exact to a tick, or that of the nearest send times with the same counters when the true ones are half the range apart or more; the incremental trend is the regression over the calls since `Reset`; the Kalman estimate never overshoots and no outlier disables it; a path of constant delay is Normal with either filter, and with Kalman an overuse verdict means that some packet was delayed more than an earlier one |
| `rate_stats` | `TotalMatches`, `StalenessBounded`, `ImplementsWindow` | however calls are reordered, the running total is exact, no sample outlives the window by more than the lateness, and the trimmed slice implements `SlidingWindow` (refinement) |
| `remb_scheduler` | `OverstatementBounded`, `SendGapBounded` | a significant decrease is told within one interval and jitter, any REMB is followed by another within two |
| `bandwidth_estimator` | `EstimateIsControllers`, `ControllerFollowsDetector`, `RembHonest`, `OverstatementCleared`, `KeepsAnnouncing`, `IdleKeepsEstimate` | under the ticker of `rembLoop` and with readers and the owner calling in between, the parts agree through early returns, bursts, idle periods, reordering and resets; a last value that overstates the estimate is replaced within an interval and the jitter, and while a source is known REMBs keep coming |
| `stream_tracking` | `InactiveRemovedInTime`, `OnlyPausedRemoved` | whatever the interleaving, a silent stream is gone after timeout, period and lag, and a bound stream is removed only if, no more than twice the lag before, it had been silent for longer than the timeout less twice the lag |
| `rtp_receive` | `FedIsOwnPacket`, `OwnTimeFed`, `ClockSwitchHasCause` | readers that share the pool never mix packets; a stream that agrees with the others on ids has every packet fed with its own time, also while others are being bound; a stream fed by send times leaves them only for a packet whose send time reads as zero |
| `remb_loop` | `NoLoopAfterClose`, `LastValueAccountedFor`, `CloseReturns`, `RemoteCatchesUp` | with the writer bound twice, before, during or after `Close`, and with failing writes: only a loop started after the channel was closed outlives `Close`; with one loop the sender has the value recorded as sent unless it is in flight or lost; `Close` returns; a settled estimate reaches the sender and stays |
| `interop_server` | `ServedIsNamed`, `RunningIsServed`, `MutexIsReleased`, `LeaksOnlyFromFailedOffers` | only the listener that `Addr` names is ever served, and none after `Shutdown`; a server that runs and was never shut down comes to be served; `Shutdown` frees the mutex, also without a deadline; only an offer that failed after its connection was created leaves one open |

The two runs that are expected to fail, `never_below_min` and `increasing_delay`,
are in [section 4](#4-where-the-code-differs-from-what-it-says). Each run asks one
question of the system; variants of a question share one (lateness 0 and above,
writes that fail and succeed, both filters), with the property saying what each
case gets. The type invariants (`TypeOK`) of `RateController`, `OveruseDetector` and
`RembScheduler` are in no run: they are proved for all values of the constants.

### Bounds

- `RateController` has no bound on the number of updates: rates, instants and
  signals are finite sets. Instants span two seconds in half-second ticks, so
  that elapsed times below, at and above the cap and below zero occur; the
  incoming rates include 0, 1 (truncated to 0 by β) and one whose β-fold exceeds
  the estimate.
- `OveruseDetector`: the clock ends at 28 ticks, one long gap of 25 (for which
  Δt·K exceeds 1) and room for sustained regions on both sides of it; `MaxRun`
  caps the length of the history record, above the two detections that matter.
- `DelayEstimator`: a counter of 12 units of 3/2 ticks, so that it wraps within
  the 18 ticks of the clock; send gaps of 5, 6 and 7 units, below, at and above
  half its range, and below zero (the run `increasing_delay` has only those below
  half, so that its trace needs no ambiguous send time); arrivals early, late, on time and out of order, some within a burst. Six
  packets between two resets give five measurements: the history of three
  points slides and the count cap, 3, is reached. The coefficient is 1/2 and
  `UnitsPerUs` is 32, which makes the smoothing exact; nothing is shown of the
  rounding of `float64`.
- `RateStats`: a window of 3 ticks, a clock of 6, three samples, calls up to two
  ticks late: several expire at once, and a stale one hides behind a fresh one.
- `RembScheduler`: five intervals, estimates on both sides of the 3 % threshold,
  and 0.
- `StreamTracking`: unbounded in time. `MaxLag` bounds how long one goroutine may
  take between two of its steps while the clock runs; it is below the cleanup
  period and twice it below the timeout, as the 5 and 2 seconds of the code and a
  scheduler make it. Neither bound of `OnlyPausedRemoved` can be
  tightened: TLC finds it violated for `LongestGap + 1`, or `2 * MaxLag - 1`. Two
  streams, symmetric.
- `RtpReceive`: unbounded in time. Two streams; four offers (agreeing, with the
  two ids swapped, lacking one); seconds of 4 and 8 units, of which 2 and 4 fit
  before the timestamps wrap, in place of 2^18 and 2^32 units, 2^6 and 2^32
  seconds; times that are zero in one scale only; two pooled structs.
- `RembLoop`: unbounded in time; two estimates (the one sent is the lower, the same
  or the higher one), two REMB loops and the cleanup loop.
- `InteropServer`: two requests and two listeners, so that one request is in
  progress when another starts, and `Start` follows a `Shutdown`.
- `BandwidthEstimator`, in `EstimatorLoop`: a clock of 7 ticks, windows of 2, two
  samples, three filter outputs (calm, above and below the threshold). An interval is two ticks and
  the jitter one, so that three ticks of the loop fit behind a decrease, each on time or
  late. `IncomingRates` and `Times` hold every rate that two such packets give and
  every instant. The threshold does not move (`Ku = Kd = 0`), which `overuse_detector`
  explores. One packet size and one SSRC: the properties tell rates apart by the
  number of packets in the window, and SSRCs only by whether there are any.

### Fairness

- `remb_loop`: goroutines are scheduled, `Write`, the callback and the cleanup
  return, tickers fire and time passes: weak fairness on a loop's next step
  (`LoopStep`), on `CloseReturn` and on `IntervalElapses`. A `select` with several
  ready cases chooses uniformly, so a case that is ready again and again is taken
  eventually: strong fairness on `ReceiveClosed`. `RemoteCatchesUp` also assumes a
  network that is not down for ever: strong fairness on `WriteSucceeds`. There is
  no fairness on `Close`, on binding or on packets.
- `interop_server`: weak fairness on the serving goroutine, on the steps of a
  handler (which succeed or fail), on the return of `Shutdown` once no request
  is in progress, and on `PeerGone`: peers do not stay for ever. Nobody is obliged to
  call `Start` or `Shutdown`, no client to come and no context to end.

## 4. Where the code differs from what it says

Two runs check a sentence of a comment, and TLC shows an execution that
contradicts it. `findings` quotes the sentences and lines.

| Run | The code |
|---|---|
| `never_below_min` | limits the estimate to 1.5 × the incoming rate after the clamp, below `MinBitrate` |
| `increasing_delay` | fits the slope of smoothed delay *variations*, not of an accumulated delay: a delay that grows with every packet, but ever less, gives a negative trend |

Other places where the code does less than a reader would expect are not errors of
their own: the passing properties say exactly what holds in their presence.

| The code | What the properties grant |
|---|---|
| sets the estimate to β × the incoming rate on an overuse, which may raise it | `NoGrowthAfterOveruse` compares with the estimate that the overuse has set |
| does not cap the time between two detections: after a long gap the threshold jumps past the estimate | `ThresholdTracksOverShortGaps` is about short gaps |
| changes the detector's state in `Reset` without telling the callback | `DepartureIsReported`: all the callback can miss is a return to Normal |
| keeps reporting underuse while estimates are above the threshold but not yet sustained | `UnderusingStaleBounded` bounds how long |
| with the trendline filter may report overuse although no delay grew: the slope over variations is positive while a shrinking delay shrinks less and less | `OveruseMeansDelayGrew` is about the Kalman filter, `SteadyPathIsNormal` about both |
| stops trimming at the first fresh sample, behind which a stale one may hide | `StalenessBounded`, `SlidingWindow` allow it for as long as calls were late |
| asks the scheduler only when the ticker fires: an early tick skips an interval, a decrease waits | `SendGapBounded` allows two intervals, `OverstatementBounded` one |
| deletes a stream that was read or bound again after it was found inactive | `OnlyPausedRemoved` bounds how long ago its pause was over |
| looks at the time *stored* by the last packet: one stamped in time (interceptor.go:177) but not yet stored (181) when the loop checks (310) does not save its stream, although the loop "removes streams that haven't received packets for longer than streamTimeout" (284) | `OnlyPausedRemoved` counts a pause from the timeout less twice the lag |
| takes the extension ids of the first stream for all of them, so that a stream with other ids is read under theirs | `OwnTimeFed` is about streams that agree; `ClockSwitchHasCause` holds for all |
| takes a send time of 0 for none: falls back to the capture time, of another clock, or skips the packet | `OwnTimeFed`, `ClockSwitchHasCause` name exactly this |
| counts a REMB as sent before writing it and ignores the error | `LastValueAccountedFor` names the loss, `RemoteCatchesUp` its repair |
| starts a loop although `Close` has begun or returned | `NoLoopAfterClose` leaves out exactly those |
| compares with the last packet of a burst, so that a burst may last for ever, and measures when the current group has only its first packet | `DelayExact` is about the variations it does measure, with the packets it uses |
| drops a fresh overuse verdict, and the time of the packet, when there is no rate | `ControllerFollowsDetector`, `IdleKeepsEstimate` |
| publishes 0 when `InitialBitrate` is left out, while the controller holds the default | `EstimateIsControllers` holds for a configuration that sets it |
| returns from `HandleOffer` on an error without closing the peer connection | `LeaksOnlyFromFailedOffers` |
| listens again on a `Start` after `Shutdown`, which `net/http` refuses to serve; `Addr` goes on naming a listener although it "Returns empty string if server is not running" (server.go:111) | `RunningIsServed` is about servers that were never shut down |

## 5. What is proved

Under the assumptions named `...Assumption` in the modules (configurations that
are numbers, thresholds in order, a counter of even range), for every value of
the constants:

- **`OveruseDetectorProofs`**: `TypeCorrect` (with the threshold's bounds),
  `OveruseIsSustained`, `UnderusingSoonCorrected`, `DepartureReported`,
  `SustainedIsReported`, `ThresholdApproaches`. The first
  properties are not inductive: they speak of the history `run` and the code of its own region.
  `RegionIsRun` ties the two together (in a region exactly while a run lasts, the
  same start, the counter capped by the run's length), and
  `IInv == TypeOK /\ RegionIsRun /\ SustainedOveruse /\ UnderusingStaleBounded` is
  inductive. `ThresholdApproaches` rests on a lemma that a fraction below one of
  a distance, truncated, does not pass its end.
- **`RembSchedulerProofs`**: `TypeCorrect`, `DecreaseSentWithinInterval`,
  `SendGap`. `IInv` adds where the clock may be relative to the next tick, and
  that both the start of an overstatement and the last REMB are within one and
  two intervals of the *next tick*; the properties, about the clock, follow.
- **`DelayEstimatorProofs`**, first about `InterArrival` on its own: `UnwrapNearest` (unwrapping
  any two times gives a difference with the same remainder, at most half the range
  from zero, for every even range) by a case split on the wrap that is undone, and
  from it `UnwrapExact` (the true difference, if that is less than half the range,
  since no other has its remainder: `NearestIsExact`); `GroupsNeverTouch`;
  `MeasurementExact`, whose `DInv` says that the current group's send time is the
  remainder of the last packet's true one.
  Then about the pipeline: `PipelineRefinesCalculator` (the detailed specification implements
  `InterArrival`'s, by which the above holds in it too), `KalmanNeverOvershoots` and
  `OutliersBounded`, with `KInv` (the filter's variances are naturals and the noise
  is not zero, so that the gain lies between 0 and 1), and `OveruseIsReal`. For the last, `DelayInv` relates
  the groups to recorded one-way delays and `QuietInv` says that as long as no delay
  has grown every variation, hence the estimate, is at most 0 and the detector
  has seen nothing above its threshold. `SteadyPathStaysNormal` holds behind either
  filter: its `AtRest` says that on a path of constant delay every variation is 0,
  the Kalman estimate is 0, the trendline's points lie on the axis and the detector
  is Normal. That the slope is then 0 needs the divisor to be positive,
  `VarianceIsNat`: n·Σx² − (Σx)² is never negative, by induction on the
  number of points. `TrendOfLastCalls` states for every configuration what the
  history holds: the last `WindowSize` calls, in order, timed from the first since
  `Reset` (`Matches`), with delays smoothed by a function over all calls since then
  (`IsSmoothing`); and that the trend is the slope of those points, with a positive
  divisor. `TrendIsRegression` goes on to the reference of `TrendIsReference`: the
  slope from running sums is the slope over all pairs of points
  (`LeastSquaresOverPairs`, by induction on the number of points), and the smoothed
  delays are the closed form (`ExactReference`, by induction on the
  calls). The closed form rounds once where the filter rounds at every call, so the
  theorem is about executions in which no smoothing has rounded yet
  (`SmoothingExact`); every reachable state of the run `delay_estimator` is one.
  `PipelineThresholdInRange` is the detector's type invariant behind either filter.
- **`BandwidthEstimatorProofs`**, first about `RateController` on its own: `TypeCorrect`,
  `PositiveEstimate`, `BandedEstimate`, `OveruseThenHold`, `GrowthBounded`. `TypeOK`
  is inductive; the next two follow from it and `LimitedInBand`, a lemma about
  clamp and ratio limit applied to any natural: the last clamps decide, whatever
  came before. `OveruseThenHold` needs that the state after an overuse is
  Decrease (`StateOfOveruse`), and `GrowthBounded` that truncated products and
  quotients are monotone.
  Then about the estimator: `EstimateAgreement`, under the assumption that
  `InitialBitrate` is set (without it the two differ until the first update);
  `ControllerFollows`, which needs only that the detector's hypothesis is one of
  its three values, so that the proof does not depend on how it is computed;
  `SilenceKeepsEstimate`: trimming a window in which everything has expired
  leaves it empty, so that the packet is alone in it and there is no rate; and
  `RembIsHonest`, for every scheduler configuration.
  `EstimatorImplementsController` is the refinement `EstimatorSpec => Spec`: every
  step of the composition is an `Update` with a verdict of the detector and a rate
  that `RateStats` measured, a `Reset`, or a stutter. That the rate is a natural
  number rests on the running total being a sum (`StatsInv`, from the lemmas of
  `RateStatsProofs`). The composed estimator may measure any rate at any time, so
  the theorem asks that `IncomingRates` and `Times`, the inputs `RateController`
  is offered on its own, hold every natural number; nothing in the proofs about
  `RateController` needs them finite. `EstimatorKeepsBounds` carries its bounds over.
  Last about the loop: `LoopImplementsEstimator` (a step of `LoopSpec` is one of
  `EstimatorSpec`, whose theorems hold in it), `DecreaseReachesRemb` and
  `AnnouncesWhileKnown`. As in `RembSchedulerProofs` the properties, about the clock,
  are not inductive: `LoopInv` bounds the distance from the start of an
  overstatement, from the first source and from the last REMB to the *next tick*,
  and says that the histories mean what they record. `ObserveFacts` is the part
  common to all steps; a tick clears the overstatement because it asks the scheduler
  (`MaybeBuildREMB`), and a call can only begin one.
- **`RateStatsProofs`**: `TotalExact`, `StalenessIsBounded` and the refinement
  `WindowImplemented`, `Spec => ImplementsWindow`. `IInv` says that the total is exact,
  that no sample is later than the latest call or more than the lateness older than one
  before it (`Orderly`), and that the first one, if any, is within the window of the
  last call (`FreshFirst`), from which the age of the others follows. The steps of `SlidingWindow` follow from what trimming removes
  (`ExpiredCounted`: exactly the samples before the first fresh one) and from
  `SumOfSplit`, which divides a sum where the slice is cut.
- **`StreamTrackingProofs`**: `RemovedInTime`, `OnlyPausedLost`, for every number of
  streams, timeout, period and lag. `AgeInv` bounds every age by the time since the last tick, with
  a period more for the streams that the cleanup in progress has yet to deal with
  (`Pending`); `LoopInv` says where the cleanup loop may be. `PauseInv` relates what is
  stored to the silence it stands for: it lags by no more than `MaxLag`
  (`StoredInTime`), unless a packet on its way to the map has just ended the silence
  (`EndsSilence`); then either that was a pause, over for no longer than the packet is
  on its way, or the age is not above the timeout by then. Hence what the loop finds
  inactive at its tick was in a pause at most `MaxLag` before (`FoundWasPaused`), and
  the deletion follows at most `MaxLag` after.
- **`RtpReceiveProofs`**: `ReadersDoNotMix` (`PoolInv`: a struct is free or in one
  hand), `SendTimesKeepTheirClock` (`SourceInv`, and that ids once set never change), `ConversionExact` (shifts and
  masks give the capture time by definition, for every resolution) and
  `EveryPacketKeepsItsTime` (`IdsInv`, `TimeInv`: what a reader has loaded is an id of some stream
  that is bound, and what it has chosen is the packet's own time).
- **`LifecycleProofs`**, about `RembLoop`: `CounterExact` (the `WaitGroup` counts the loops that run, for any
  number of them), `NothingLeftRunning` (`ClosingInv`) and `RecordedIsAccountedFor`
  (`SentInv`: with one loop, at most one REMB is under way and it is the last recorded).
  About `InteropServer`: `OnlyNamedIsServed`, for any number of listeners and requests. Its
  `ServingInv` says that until the first `Shutdown` only the goroutine of the last
  successful `Start` can still have a listener to serve, and that afterwards none can.

Sums over sequences are recursive functions, and what they compute is proved by
induction. The library's induction theorems take an operator as a parameter,
which the provers cannot instantiate; `LeastNat` and `InductiveSet` (`RateStatsProofs`)
derive induction for *sets* from the library's theorem that inclusion of finite sets is
well-founded: a set with 0 and the successors of its members holds every natural.
`SumUpToExists` and `BytesUpToExists` show that each recursion has a solution.

Only model-checked:

- `TrendIsReference` where smoothing rounds: there it need not hold, since the
  reference rounds once. What holds for all configurations is `TrendOfLastCalls`.
- `CloseReturns` and `RemoteCatchesUp` of `RembLoop`, `RunningIsServed`,
  `MutexIsReleased` and `LeaksOnlyFromFailedOffers` of `InteropServer`: liveness under
  fairness is out of the prover's reach.

## 6. What is left out, and the plan

Not modelled:

- `InterceptorFactory`: options write fields of a configuration, from which
  `NewInterceptor` builds parts of its own; nothing is shared or changed later.
- REMB encoding: fields copied to and from `pion/rtcp`, which does the arithmetic
  of mantissa and exponent and is not part of the repository.
- The abs-capture-time arithmetic of `timestamp.go` (lines 57 to 103), which only
  tests call; the conversion that the receive path does is in `RtpReceive`.
- `Clock`: a wrapper of `time.Now`. Instants are variables of the modules.
- The soak runner: a sequential driver that feeds synthetic packets and prints.
- Test utilities: trace generation and browser automation, pure I/O. The web page
  and logging of the interop server likewise.

Hazards that no property covers have a note in `PROJECT.json` saying why: a
second `Close` panics in the first statement, the set of SSRCs only grows, a
burst may last for ever, a removed stream is not tracked again, time between two packets
that arrive out of order is counted twice, and the detector's clock is not compared
with the arrival times. Where the code itself does what a hazard warns of, the note
says which case the properties leave out.

The order of the work, the most important behaviour first:

1. *Done.* `RateController`, `OveruseDetector`, `RateStats` with its abstract
   `SlidingWindow`, `RembScheduler`, `InterArrival`; the composition
   `BandwidthEstimator`; the concurrent parts `RembLoop` and `StreamTracking`.
2. *Done.* `Kalman`, and it and `Trendline` composed with `InterArrival` and
   `OveruseDetector` as `DelayEstimator`; `RtpReceive` with the pool;
   `InteropServer`; two REMB loops in one run with liveness.
3. *Done.* Proofs in eight modules: every safety and action property of the
   passing runs (`TrendIsReference` where no smoothing rounds), and four
   refinements, `RateStats` of `SlidingWindow`, `BandwidthEstimator` of
   `RateController`, `EstimatorLoop` of `BandwidthEstimator`, `DelayEstimator` of
   `InterArrival`.
4. *Done.* The scheduler's bounds inside the estimator (`EstimatorLoop`) and the safety of
   `InteropServer` behind its liveness.
5. *What would be next.* Growth over several updates with times out of order; how
   far rounding moves the trend from its reference.

Running a check:

    tlc -config MCRateController.cfg MCRateController.tla
    tlapm BandwidthEstimatorProofs.tla
