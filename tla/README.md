# convobs in TLA+

A specification of convobs, the converter of GNSS observations (UBX, RTCM, RINEX,
obsj) in this repository: TLA+ modules translated from `src/`, TLC configurations
that check them on small instances, and TLAPS proofs about the parts where an
instance is not enough. `PROJECT.json` lists the runs, the theorems, the source
lines of every definition, the hazards and the findings.

## The system

convobs is sequential. It reads its inputs one after the other, pushes every
observation through a chain of sinks, and writes when the inputs are done. What is
hard is not concurrency but memory: state kept per signal or per constellation
over long sequences of measurements, across gaps, filters, files and formats.

| Component | State | Operations | What makes it correct |
| --- | --- | --- | --- |
| UBX converter (`obsj/src/ubx.rs`) | slip state per signal | one measurement | a slip seen without phase reaches the next phase |
| RTCM converter, cells (`obsj/src/rtcm.rs`) | lock and slip maps | one MSM7 cell | the same |
| RTCM converter, time (`obsj/src/rtcm.rs`) | week constraint, leap seconds, last epoch per constellation | one frame, with or without a constraint | every epoch gets its true week and day |
| Loss of lock (`obsj/src/arc.rs`) | counter per signal; previous arc per signal | flag to arc, arc to bit | arc differs exactly where a slip was |
| Sinks (`obsj/src/sink.rs`) | none of their own | drop or pass on | nothing upstream is lost with a dropped epoch; every epoch of the grid is kept |
| RINEX files (`obsj/src/rinexobs.rs`, `rinex-obsj/src/lib.rs`) | buffered observations, the file | buffer, write, read | slips and values survive the file |
| obsj lines (`obsj/src/json.rs`) | none beyond the line | read line by line, write record by record | all lines before the first bad one are handed on |
| Comparison (`obsj/src/diff.rs`) | index and previous arc per side | compare two streams, two headers | sees what differs |
| Driver (`cli/src/lib.rs`) | family, the UBX parser's buffer, count of messages | open input, convert packet, finish | family chosen by observations, nothing of it lost or converted twice |
| Observation inputs (`cli/src/lib.rs`) | sink chain | forward file after file | observations, headers and epochs of all of them arrive, up to the first error |
| Metadata (`cli/src/lib.rs`, `obsj/src/obs.rs`) | header fields of the sink | merge, in an order that depends on the kind of input | no header mixes two programs or two antennas; the right record wins |
| GPS time (`obsj/src/obs.rs`) | none | civil time and back, weeks, labels, dates | follows the calendar for every time; a label is read back as its time |
| RINEX time systems (`obsj/src/rinexobs.rs`) | the file's header | shift an epoch to GPS time | an epoch keeps its time |
| Backends (`cli/src/rinex_backend.rs`) | none over time | choose one per input and for the output | CRINEX goes to the one that reads it |
| Option syntax, tables, errors | none over time | parse, print | not modelled |

A measurement travels through converter, `LossOfLockSink`, `RequireCpFilter`,
`DecimationSink` and writer inside one call, so one action stands for the whole
journey. The driver owns the converter and keeps it from input to input. The reader
of a RINEX file uses the same `LossOfLockSink` as the converters to make arc from
loss-of-lock bits, and the writer uses `ArcToLl` to make bits from arc.

Hard behaviours: slips in epochs without phase, in epochs that are dropped, or in
changes of the half cycle; the week of a message that only tells the time of the
week, at week ends, for GLONASS with an unknown day, for constellations that
appear late, over several files; input out of order, given twice, or bad in the
middle; packets cut between two inputs; formats that have no arc; division of times
before an epoch. Nothing is retried, no message is lost inside the program and
nothing persists, so there are no modules about crashes or delivery.

## Modules

| Module | Models | Correspondence |
| --- | --- | --- |
| `Sinks` | `arc.rs`, `sink.rs` | `arc` is the counter map (absent entries are 0), `out` what reaches the writer; `Forward` is the chain of `observation` calls. `slips` is history: how many slips the converter has detected, copied into each record of `out`. `at` keeps the input in the order of time. |
| `EpochGrid` | the rounding and the valid intervals of `sink.rs` | operators of `Sinks` and `GpsTime` |
| `DeferredSlips` | no code: the promise of a converter | a slip is pending until an observation with phase reports it; when it is detected, and early reports, are left open |
| `UbxPath` | `ubx.rs` with `Sinks` | `state` is `Converter.state`; `Observation` is `Converter::observation` with `slip_hc` and the sinks |
| `RtcmPath` | `rtcm.rs` cells with `Sinks` | `lock`, `slip` are the maps; `ConvertCell` is `convert_cell` |
| `WeekResolution` | `resolve_week`, `resolve_continuity` | pure operators on times of one unit |
| `RtcmTime` | `convert_frame`, `convert_msm` and the driver's week constraints | `mode`, `week_date` are `Config`'s; `time`, `week`, `leap` the converter's; `wc`, `week_used`, `failed` the driver's; `clock` and `truth` are the receivers' |
| `ArcToLl` | `ArcToLl` | the bit of an observation as a function of the sequence before it |
| `RinexFormat` | what both backends write and read of observations | `Keys` and `SignalObservation`, the observations of both modules below; operators: sorting, columns, fields with bits, arcs read back |
| `RinexFile` | a RINEX file written, read, and converted to another | `backend` is chosen at the start; `obs` is `RinexSink.obs`, `file` the fields as written, `back` what a reader makes of them |
| `ObsInputs` | `convert_observation_inputs` with `stream_obsj` | `cfg` is the command line; an input is a sequence of lines (the first of a RINEX file stands for its header) or cannot be opened; `n` and `line` say how far the inputs are read, `records` and `headers` what reached the writer, with the places it came from: an obsj output, or what `RinexSink` keeps until `Output` is written |
| `ObsDiff` | `diff_observations` | `Diff` is the set of epochs and signals reported |
| `Metadata` | `Metadata::merge`, `diff_metadata` | a record is a function from fields to where their value comes from |
| `RinexHeader` | `parse_args` as far as metadata go, station messages, headers and time systems of RINEX files, `rinex_backend.rs`, over several conversions | `cfg`, `option` are `Config`; `meta`, `epochs` are `RinexSink`'s; `inputs` is history: the records the inputs had; an epoch carries its `truth` along |
| `Calendar` | no code: the rules of the Gregorian calendar as a clock | counts ticks, days and cycles of 400 years, forwards and backwards |
| `GpsTime` | the time arithmetic of `obs.rs`, labels and dates of `rinexobs.rs` and `cli/src/lib.rs`, the grid | `t` is `GpsTime.0`, `label` its `Civil`; the rest are pure operators |
| `Driver` | `PacketDriver` and `convert_packet_inputs` | `from`, `log` are the options; `family`, `total` as in the code; `held` is the UBX parser's buffer; a stream is read at once and its family detected when it is opened, a packet log is read line by line |
| `MC...` | | symmetry of signals; steps of the clock between files; the observations, inputs, options and headers that are enumerated |
| `...Proofs` | | proofs, each about the module it is named for; `DeferredSlipsProofs` also has those of `RtcmPath`, and `UbxPathProofs` uses its lemmas by `INSTANCE` |

`UbxPath` and `RtcmPath` compose with `Sinks` and refine `DeferredSlips`; `RinexFile`
and `ObsInputs` share `RinexFormat`; `GpsTime` refines `Calendar` with `now <- label`.

Data is abstract. A measurement says whether it has phase and whether it has any
other value; pseudoranges, ranges, signal codes and text are left out. A day in
`GpsTime` is made of constants (hours, minutes, seconds, ticks), because its
arithmetic is the same for days of any length. Definitions whose comment begins
"Faulty variant" are plausible mistakes; they belong to no specification and show
that the properties notice such a mistake.

`ConvertOther` in `RtcmTime` stands for every frame that is not MSM7; what such a
frame adds to the header is `Station` in `RinexHeader`. A conversion that fails stops in a state
with `failed`, or `"failed"` as its status or stage.

## What the runs show

Converters (`MCUbxPath`, `MCRtcmPath`):

- `UbxPath_decimated`, one signal in depth behind `--interval`, and `RtcmPath_whole`, two
  interleaved signals without it: `ArcTellsSlips` (between two written phases arc
  differs exactly when a slip was detected between them), `SlipReachesPhase` (relative
  to any earlier record a slip has moved arc by the next phase; for RTCM the theorem
  only), `AtMostTwicePerSlip`
  (UBX: arc may run ahead of the slips, but not by more than a factor of two) and
  `ImplementsDeferral` (the converter refines `DeferredSlips`). The theorems cover the
  filters the runs leave out, `--ppp-ar` among them.
- `RtcmPath_whole` also has `SlipSurfacesOnPhase`: between two phases with a slip
  between them some record *with* phase has the loss-of-lock bit. It holds without
  decimation or with `--ppp-ar`.
- `UbxPath_external`: with decimation alone it fails. arc moves on a kept record without
  phase, its repetition at the next phase is decimated, and the external backend
  writes the bit only with a phase (finding). The RTCM converter does the same.

Times (`MCRtcmTime`): `RtcmTime_weeks` has input of the last week, dated input and packet
logs; of dated files each has its own date (`-f`) or one `week_date` holds for all
(`--date`, where it is the first file that begins on the date). `EpochsTrue` says that
the time of a constellation's latest epoch is the true one, `AllResolved` that no epoch
ends the conversion, except one of dated input outside the date's 50 hours: the first of
a constellation that appears so late, or one in the first frame of a file. With `--date`
that is any file that begins outside the 50 hours; with `-f` only one that begins in the
leap seconds after them, since the bounds are in UTC and are compared with GPS time. `RtcmTime_files` is a finding: of two files more than half a week
apart, the second is dated by the first.

Observations in files (`RinexFile`): `SlipsSurvive` says which slips are in the arcs read
back, whatever the order of the input: all of them through the internal backend,
those on observations with phase through the external one;
`ValuesSurvive` that no value is lost or made up; `RoundTripEqual` that the
comparison of `ObsDiff` sees no difference, so that a round-trip test with it cannot
fail; `DiffSeesSlips` that it would see every bit that is wrong, except on a signal's
first observation; `Stable` that a second pass through the format changes nothing.
`SlipsSurvive` and `RoundTripEqual` hold together: with `--ignore-blank-phase`
the comparison cannot see that the external backend lost a slip.

Several observation inputs (`MCObsInputs`): `ObsInputs` reads one or two inputs, some of
which cannot be opened or are bad in the middle. `UpToTheError`: what reached the
writer, observations and headers, is the first part of what the inputs hold, and in the
end all of it up to the first error; the command line's metadata come last, and only
when nothing was wrong.
`SlipsSurviveJoin`: a slip within an input has a bit in the joint RINEX file, however
the epochs of the inputs interleave, unless two inputs have a signal in the same
epoch. `TwiceIsOnce`: a RINEX file given twice makes the output of the file given once.
`Completes`: every conversion ends, with output when nothing is wrong.
`ObsInputs_joined` is a finding: arc starts again with every RINEX input, so at the
start of the second a bit need not change arc. Counting on over the inputs would
mend that, and break `TwiceIsOnce` (this is its faulty variant, `BitsUpToJoint`).

Headers (`RinexHeader`): `OneRun` and `OneAntenna` say that program, run-by and date
are this conversion's and that no antenna has another's serial number, through
files of files; both depend on `merge` taking these groups over whole. `Precedence`
says whose value every other field has: the command line's for observation inputs,
the stations' for packets, nobody's for the marker's type in a file of the external
backend. `OnlyTheCommandLine` says that a file made from one file
alone differs from it, by `diff_metadata`, only in fields that the command line sets,
in those that are taken over with them, in positions that were not known, and with
the external backend in the antenna's offset, which it does not read, and the marker's
type, which it neither writes nor reads. A version that is suppressed or unknown is
written as the default by both backends. `EpochsSurvive` says
that an epoch has its true time in the sink and when the file is read again,
whatever time systems the inputs were in, given that a file in GLONASS time states
its leap seconds or the default is right. A position nobody knows is written as zeros
and then counts as known; the properties are stated so that this is allowed (hazard).

Driver: in `Driver_inputs` the options are chosen at the start, so one run covers
streams and packet logs, raw and of a given family. What is converted is recorded as
places (input, packet); that each is converted once, in order, is `InOrder`, which
`FamilyConverted` and `SplitConverted` include. `FamilyConverted`, `Counted` and
`SplitConverted` (a UBX observation cut between two streams is converted, in its place)
hold in all of them, `ObservationSelectsInStreams` for raw streams and
`OldInputsNotAssumed` for RTCM streams. `Driver_family` is a finding: in a raw packet
log any RTCM packet selects the family.

Time (`MCGpsTime`): `GpsTime` visits every day of 400 years and of the turn to the year 0.
`ImplementsCalendar`: its label moves as the calendar does. `LabelsReadBack`: labels of
obsj, RINEX, packet logs in time zones and run dates are read back as their time.
`OnlyRealDates`: of the days 0 and 28 to 32 of a month the parsers take those it has, and
a filename has a date if it has one, once or repeated.
`WeekTime`: week and time of the week are rounded down, before the epoch too.
`GridKept`:
decimation keeps the epochs nearest to a multiple of the interval and no others.

Five more places where text and code part, seen while the modules were written and
without a run of their own:

- The comments on `slip_hc` (`ubx.rs:194`, `rtcm.rs:431`) say that a slip without phase
  is deferred to the next epoch with phase. Both converters can also report it at
  once, on the epoch without phase, and then again (hence `AtMostTwicePerSlip`).
- `--date` assumes that "the first observation occurs on the specified date"
  (`docs/convobs.1.md:96`); a constellation that appears two days later still ends the
  conversion, since its first epoch is resolved in the 50 hours around the date. The
  date holds for every input: a later file that begins after the 50 hours ends the
  conversion as well (`lib.rs:862`), and one that begins whole weeks later is dated
  those weeks too early, which `InReach` excludes.
- `--ignore-blank-phase` is to cover what the external backend drops (`diff.rs:64-69`),
  but a half-cycle bit without phase, which the RTCM converter can make
  (`rtcm.rs:446`), is dropped and still compared; `RoundTripEqual` excludes it.
- The week of raw streams is inferred however old the input is (`lib.rs:870`), against
  `docs/convobs.1.md:101`; only `--from rtcm` refuses it.
- `--interval 1.25` divides a day, as `docs/convobs.1.md:71-72` asks, but epochs are rounded
  to 100 ms before they are compared with it (`sink.rs:66`), so that every other epoch of
  its grid is dropped. `GridKept` speaks of intervals that are a multiple of the unit.

### Bounds

- Signals: the slip state and arc of a signal depend on no other signal; one signal
  in depth (UBX), and two over four epochs to see that they are kept apart (RTCM). Lock times need three values
  (0, lower, higher), `cp_stdev` one on either side of the threshold.
- `RoundUnit = 2`, `Interval = 4`, `MaxEpoch = 8`: three epochs on the grid, jittered
  ones that are rounded onto it, and gaps between them. Three slips (`MaxSlips`) are
  enough for one before, in and after a gap; `MaxArc` is twice that.
- RTCM time: a day is 6 units and half a week 21, so that week ends, half weeks and the
  50-hour interval (13 units) all fall on different instants; the offsets of BDS and
  GLONASS and the leap seconds are one unit, which is enough to carry an epoch over
  a boundary. Clocks run for one to two weeks.
- Files: three observations in any order, of one signal with all arcs of 0 to 2, or
  some of them of a second signal in the same epochs, for both backends, and two
  passes.
- Inputs: two, so that one is read after another has moved all state; three epochs in
  a RINEX input, which may be those of the other, and two lines in an obsj input, so that
  a line can come before and after a bad one.
- Headers: two conversions with two inputs each, so that a record can win over an
  earlier and a later one and travel through a file. Fields that behave alike are one field.
  `TrueLeap` differs from the default; files are in GPS, GLONASS and BeiDou time, said in
  the first header line, in the last, or only by their satellites.
- Driver: three inputs of three packets in all, of both families, with and without
  observations, whole or cut, so that a family can be chosen in any of them and a cut
  can be followed by its rest, by something else or by nothing.
- Time: a day of 2 hours of 2 minutes of 3 seconds of 4 ticks, all different enough that
  no carry can be mistaken for another; 403 years hold every kind of year and century,
  every 31st day is walked tick by tick, and jumps of five cycles reach other eras.

Every guard with a `Max...` constant is such a bound, as are `Scope`, `TickEvery` and
`Cycles` in `GpsTime`; the code has none of them.

### Fairness

`ObsInputs` has `WF_vars(Next)`: `convert_observation_inputs` is a loop over its inputs with
nothing to wait for, so it takes a step whenever there is one. `Completes` needs no
more. The other specifications claim no liveness: their environment (receivers,
inputs that may follow, the next conversion) need not go on. Deadlock is checked
where the system has no end (`GpsTime`) and not elsewhere, since every conversion ends.

## What is proved

With TLAPS, for all values of the constants:

- `DeferralArcTellsSlips`, `DeferralSlipReachesPhase`. Neither property is inductive:
  they speak of records written, not of the state that will make the next record. `IInv`
  adds `AllLinked`, which relates each record to its signal's arc, slip count and
  pending flag now: a slip since the record has moved arc or is pending, and after a
  record with phase arc moves only because of a slip. A new record then inherits both
  properties from the links of the older ones.
- `UbxImplementsDeferral`, `RtcmImplementsDeferral`: refinement, step by step, with
  `pending` mapped to `state[k].pending` and to `slip[k]`. The properties of the
  detector carry over to both converters (`UbxArcTellsSlips`, `RtcmArcTellsSlips`,
  `UbxSlipReachesPhase`, `RtcmSlipReachesPhase`, `UbxTypeCorrect`, `RtcmTypeCorrect`).
- `UbxAtMostTwicePerSlip`, by induction on its own.
- `DeferralSlipSurfacesOnPhase`, and with it `UbxSlipSurfacesOnPhase` and
  `RtcmSlipSurfacesOnPhase`, for `Interval = 0 \/ RequireCp`: the run `UbxPath_external`
  shows what happens otherwise. `SurfacedInv` adds that a slip after a record with phase
  is still pending unless a later record has phase and the bit. While a slip is pending
  no epoch is lost before the one that reports it: without decimation every observation
  with phase is written, and with `--ppp-ar` nothing without phase is, so the bit always
  falls on a record with phase.
- `RtcmEpochsTrue`, `RtcmAllResolved` and `RtcmTimeTypeCorrect`. An interval no
  longer than a week that contains the true time yields it and nothing else, and continuity yields it when the previous epoch is true and
  less than half a week away (`ContinuityTrueTime`). With an unknown GLONASS day there
  are seven candidates, and an interval around the time that is at most a day long picks
  the right one (`MatchesOfDays`). An interval yields no other time
  either when the true one is outside it, as long as that is less than a week from its
  far end (`MatchesTrueTime`). The invariant adds that the constraint of a file is no longer than
  a week, is the converter's `week` after the first frame, and with `-f` contains the
  time of that frame, give or take the leap seconds. What fails is then outside the
  interval of a date, and is a constellation's first epoch or in the first frame of a
  file; `RtcmAllResolved` is a theorem about steps. The theorems assume `Receivers`:
  leap seconds are the default's, and input of the last week is of the last week; files
  also state the day of the week and have every constellation back within half a week,
  and a date's interval is no longer than a week (it has 50 hours). That an epoch which
  is not resolved by continuity is less than a week from either end of the interval in
  force is part of the specification (`InReach`): the program cannot tell other input
  from it. In packet logs days may be unknown and gaps of any length, since
  every entry has its own constraint; that must last longer than the leap seconds on
  either side and no longer than a day (it has 60 seconds on either side). The constants
  of `RtcmTime_weeks` satisfy all this; the run `RtcmTime_files` shows what happens
  without it.
- `DriverCounted`, `DriverOldInputsNotAssumed`, `DriverInOrder`. `DriverInv` adds that
  packets are converted only at places that have been read (`PlacesRead`), which a new
  place comes after, and that while the input is said to be RTCM no old input has been
  opened.
- `DriverObservationSelectsInStreams`, `DriverFamilyConverted`, `DriverSplitConverted`,
  for inputs of any number and size. `ConvertedInv` says at every moment what has been
  converted: the observation packets read so far of the inputs that go to the family's
  converter (`Due`), and the packets put together from two such inputs (`SplitDue`). It
  needs to know which packets have chosen the family (`FamilyInv`), and that `held` is
  the last input exactly when that one was fed to the UBX parser and ended in a cut
  (`StreamInv`). When the family is chosen in the middle of a log, nothing that was read
  before it is due, so the set does not change under its feet.
- `RinexFileTypeCorrect`, `RinexFileSlipsSurvive`, `RinexFileValuesSurvive`,
  `RinexFileRoundTripEqual`, `RinexFileDiffSeesSlips`, `RinexFileStable`, for any number
  of observations, signals and arcs, in any order of time. `FileInv` says what the file
  is (`Written(backend, Sorted(obs))`) and that what is converted again is a listing of
  what was read of a file that can be written. Everything else is about sequences:
  sorting keeps the observations and orders those of each signal (`SortedFacts`); a
  field stands exactly for an observation that the backend can write, and carries its
  bit and values (`WrittenFacts`); an arc read back counts the bits up to it, so that
  two arcs differ exactly when a bit lies between them (`ArcMoves`). `Stable` needs that
  the bits of a file are those that the arcs read back make again (`RewrittenField`),
  `DiffSeesSlips` that a file with wrong bits has the same fields and differs in exactly
  those bits (`FlippedFile`), each of which is a transition on one side only.
- `GpsTypeCorrect`, `GpsLabelsReadBack`, `GpsWeekTime`, `GpsGridKept`,
  `GpsOnlyRealDates`. The invariant is only that the label is that of the time; the
  properties follow from lemmas about the arithmetic, for all integers: division as the
  machine does it with its correction rounds down (`DivModFloors`), the year of a day
  within its era is the one that the quotient of `civil_from_days` yields (`YearOfEra`),
  `days_from_civil` turns `civil_from_days` back (`CivilDate`), and the times of a label
  and the label of a time are inverse (`CivilTime`, `TimeOfCivil`). For the grid,
  rounding finds the nearest multiple of the unit (`RoundedTo`). For dates,
  `civil_from_days` turns `days_from_civil` back exactly for the days that the month has
  (`DateTurned`).
- `GpsImplementsCalendar`: the label of the next tick, day or cycle, and of the one
  before, is the one `Calendar` moves to, for all times. `Dated` relates a day to its
  date by year of the era, month from March and day; a day has one date (`DatedOnce`),
  the code computes it (`CivilDated`), and the next day has the next date of the
  calendar (`NextDated`), so that the code's dates follow the calendar (`DatesFollow`).
  `DayLabel` and `TickLabel` carry this over to labels.
- `HeaderTypeCorrect`, `HeaderOneRun`, `HeaderOneAntenna`, `HeaderPrecedence`,
  `HeaderEpochsSurvive`, `HeaderOnlyTheCommandLine`. `HeaderInv` adds what makes the
  first two hold: a command line always has a date, so that merging it takes the run's
  fields over whole, and every record that is merged has its antenna from one source
  (`Coherent`). For precedence, `PrecedenceInv` says of each field what the last of the
  records merged so far says of it (`Told`), and what the writer makes of that
  (`AsWritten`). `EpochsInv` says that all epochs in the
  sink and in the file are at their true time and that a file with epochs says that it
  is in GPS time, so that reading it shifts nothing. `OneInputInv` says that after one
  input the sink has merged that record and no other; what `OnlyTheCommandLine` allows
  to change is then a matter of one `Merge` (`OnlyCommanded`), and of every file having
  a version.

- `ObsInputsTypeCorrect`, `ObsInputsUpToTheError`, `ObsInputsSlipsSurviveJoin`,
  `ObsInputsTwiceIsOnce`, for inputs of any number, length and content. `UpToTheError`
  compares what was handed on with what the inputs hold before the first error; to be
  inductive it needs to know how far the inputs have been read. `JoinInv` adds this:
  everything before `n` and `line` was readable and not bad, unless the line read last has
  just ended the conversion (`Progress`), and `records` and `headers` are exactly what
  passes of the places read (`ReadPlaces`), in order and each once (`HandedOn`,
  `HeadersHandedOn`). The other two are about the file that is written of any sequence
  of observations: the stable sort gives every observation one place, in the order of
  time and, within an epoch, of arrival (`SortingExists`), so that the file can be said
  without sorting (`SortedFile`). Between two observations whose arcs differ there is a
  bit (`BitBetween`), which `NoneTwice` keeps from being lost to another of its epoch.
  For `TwiceIsOnce`, the records are those of the first input and then the same again
  (`RecordsTwice`, by the order of places: `InTurn`). In such a sequence the first copy
  has the bits it has alone (`TwiceBits`), and whatever the second wants is wanted before
  by the first, since a bit in the second copy is there only when arc moves within the
  epoch (`TwiceSecondBit`). That makes it true also of files with a signal several times in
  an epoch, which the run does not enumerate.

The named assumptions on constants (`SinksAssumption`, `UbxAssumption`,
`RtcmPathAssumption`, `DayAssumption`, `RtcmTimeAssumption`, `DriverAssumption`,
`GpsTimeAssumption`, `RinexFileAssumption`, `ObsInputsAssumption` and those of
`RinexHeader`) type the
constants; `GpsTimeAssumption` adds that a second is a multiple of the rounding unit,
`RinexFileAssumption` that a file may be written at all, and `MetadataAssumption` that
an unset field, a zero position, the default version and a value are different.

What a sequence holds is proved without induction over data: of the positions where a
property fails, or the epochs before one, there is a least or a greatest (`NatMin`,
`NatMax`), and the step from its neighbour gives the contradiction.

Only model-checked: `Completes`, which is liveness under fairness and out of the
prover's reach. The properties of the four findings are false, as their runs show.
`SlipSurfacesOnPhase` is checked where it holds and proved under the condition under
which it does.

## Not modelled

- The text of headers, records and labels: columns, number formats, comments, JSON syntax.
- Values: ranges, phases, signal strengths, their tolerances in the comparison, carrier
  frequencies (`freq.rs`), and the tables that name satellites and signals. They pass
  through unchanged and no state depends on them, apart from the thresholds modelled.
- Framing in damaged bytes. The parsers of `ublox` and `rtcm-rs` find the next packet
  themselves and are external, like the `rinex` crate; of framing only a packet cut between two
  inputs leaves state behind in this program, and that is in `Driver`.
- What a receiver's lock time means, so that a slip is what `slip_hc` detects, and leap
  seconds as days of another length (a GLONASS message within one ends the conversion,
  `rtcm.rs:493`).
- Option syntax, TOML header files as text, gzip, terminals: input and output around the
  conversion. 64-bit overflow lies thousands of years away from any week constraint.

## Plan

Done: the plan's modules on converters, weeks, files, several inputs, headers, the
calendar, the grid, the driver with packets cut between inputs, and the proofs above.

What could follow, in this order:

1. Theorems: one stable-sort lemma for `RinexFileProofs` and `ObsInputsProofs`, with the
   first's restriction to distinct observations dropped.
2. Compositions: converter, sinks and `RinexFormat` in one specification, shown to
   implement an abstract "slips survive the conversion"; `Driver` with `RtcmTime`, so that
   family, week constraint and count are one state.
3. Range arithmetic of MSM7 cells as integers of their width, with the invalid values.
