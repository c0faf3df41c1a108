# Verification of the Effelsberg Field System station code

The repository holds the station-specific programs that the VLBI Field System
(FS) runs at the 100 m telescope in Effelsberg.  This directory holds TLA+
models of them, TLC configurations that check the models on small instances,
and TLAPS proofs of the results that hold for every instance.
`PROJECT.json` lists the components with their sources, the hazards at their
lines, the runs, the mutants that show each property can fail, and for every
definition the lines it models.

## 1. The system

```
   FS (boss, onoff, fivpt, SNAP procedures)
     |  skd_run, ip[], classes                       ^ ionsor (fscom)
     v                                               |
   stqkr ---- skd_run mode 100 ---->  antcn ---------+-------- antrcv
   (cal, rx, lo, phasecal, wx, gps)    |  antenna_sentoff (stcom)  ^
                                       | UDP, once, no answer      | UDP multicast,
                                       v                           | about 1 a second
                                  VLBIsend.py ---> telescope ------+
                                  (switches pcal, IF and filters over TCP)
```

| Component | State | Operations | What is hard |
|---|---|---|---|
| antcn/antcn.c | `antenna_sentoff`, `ionsor` (shared), `ierr`, the static source, band and cal words | one mode per wake-up (0-8, 100, 110) | shared words written without a lock while antrcv runs; UDP |
| antrcv/antrcv_multi.c | `elaps`, `last_sentoff`, `gstatus` | one broadcast at a time; the decision runs after every key:value pair | old news about the old position; missed requests |
| shared memory (stlib, stalloc, include) | stcom, fscom words | attach, map, read, write | outlives the programs that use it |
| antcn/VLBIsend.py | last line, source, LO, tcal, pcal; azimuth offset | compare a line with the last one, act on the first difference | what is recorded is not always what was done |
| stqkr | a static copy of each word, the shared words, the LOs | set a word, have antcn send it (mode 100) | three programs keep a copy of each word |
| antrcv/askvax.c, real_askvax.c, clientserv.c | counts, a ladder of states, the last answer | receivers antrcv_multi.c replaced: broadcasts counted first, position errors, or question and answer | windows, wobble, late answers |
| antcn/rad2str.c | none | an angle to the text antcn sends | rounding, carries, the sign of 0 degrees |
| cheks | a module's check word, the semaphore | one pass over the modules | the word changes during the pass |
| pcald | a copy of FS's orders | wait, copy, log records | orders replaced while it works |
| mk5logd.py | two processes, failures | copy the newest log to the recorder | processes left behind, retries |
| autoftp, jbscr, sterp, inject_snap, hpcounter | little | wrappers, a stub, a test tool, one measurement | result codes; sign and wrap (hpcounter) |

What makes each correct:

- *antcn and antrcv together*: `ionsor`, on which FS starts to record, is never 1
  for a position the telescope has not reached (safety), and follows the
  telescope in the end (liveness).  antcn answers each request for itself.
- *the earlier receivers*: the same of `ionsor`, each by its own means: a shorter
  window, a ladder of states, answers that are late by a known number.
- *VLBIsend.py*: though it forwards only what it thinks is new, the telescope
  and the switches end up with what was last asked for.
- *stqkr*: its copies of the cal words, those in shared memory and those antcn
  sends agree, once an antcn started again has been told of them.
- *rad2str*: the text is the nearest to the angle; minutes, seconds and fraction
  have a fixed width.
- *cheks, pcald, mk5logd*: nothing is reported, logged or left running for
  settings, orders or a copy that are no longer current.
- *the segment*: blocks of programs compiled apart stay out of each other.

## 2. Modules

| Module | Models | State and actions |
|---|---|---|
| `StationMemory` | stcom.h, stm_util.c, fscom | the two shared words `antenna_sentoff` and `ionsor` |
| `Antcn` | antcn.c | `antcnPc` is the statement it is at; one action per access to a shared word, datagram or exit, in the order of the code: `Source...` mode 1, `Offset...` mode 2, `Record...` mode 4, `Poll...` mode 5.  Statements nobody else sees are folded into the next one.  `AntcnCrash` and `AntcnStart` between any two |
| `AntrcvMulti` | antrcv_multi.c | `antrcvPc` likewise; a broadcast is a message with its `istmess` status, taken pair by pair (`PairIstmess`, `PairOther`, then `Notice` ... `Tick`, the lines 119-151); `gstatus` starts with any value, as the uninitialised local does |
| `OnsourceService` | - | the abstract specification: what onoff and fivpt rely on, without antcn, antrcv, flags or windows |
| `Onsource` | both, with the telescope and the two sockets | composes the two over shared memory; the telescope (external) moves, arrives, is disturbed, and goes on broadcasting the old status for `React` broadcasts after a request.  `Service` maps its state to that of `OnsourceService` |
| `Askvax` | askvax.c | one broadcast at a time, one action per access to the shared words |
| `VaxState` | real_askvax.c | likewise; `Told`, `Started`, `Reached` are the rungs of the ladder `ant_state`, the strict verdict is `Strict` |
| `Clientserv` | clientserv.c | `Request`, `Read` or `ReadNothing`, `Judge`; requests and answers are numbered, the VAX and the network (external) lose any |
| `AntennaPrograms` | - | antcn or one of the receivers, as the station runs one of them |
| `CommandWords` | - | the constants the three modules below share |
| `VlbiServer` | VLBIsend.py | one action per branch of the main loop: `LineNewLo`, `LineNewSource`, `LineNewTcal`, `LineNewPcal`, `LineNoAction`, `LineNothingNew`, `HandleOffAzm` ...; `KeyRepeat` and `ServerEnds` are the keyboard, `ServerStart` a new process |
| `AntcnLine` | the contents of antcn's datagrams | its static words, the LOs of fscom, and the queue to the server; here a mode is one action, because its callers wait for it and nobody else writes the words it prints |
| `Stqkr` | stqkr.c, eff*.c, getgps.c | one action per command with an argument (`Cal`, `Phasecal`, `Rx`, `Lo`, `LoClear`), one for each way not to serve one, `StqkrRestart`, and `LoCrashes` for an efflo that dies with half its values stored |
| `FilterBank` | set_fiba, ask_fiba in VLBIsend.py | one action per command to the bank, obeyed or lost; an answer missing or unreadable |
| `Pipeline` | stqkr, antcn, VLBIsend.py | stqkr, antcn and the server joined by the datagrams; `LostAtServer` loses one, `missed` remembers the kinds whose last one was lost |
| `Rad2str` | rad2str.c | one action per field placed; angles are integers, each product wrong by up to one grain |
| `Segment` | stm_util.c, stalloc.c, setup_st.c | creation, attachment, mapping, copies, detachment, removal by any number of programs |
| `Cheks` | cheks.c | one action per look at `stchk`, for the semaphore, and for a report |
| `Pcald` | pcald.c | every wait, wake-up, copy of the orders and record; FS (external) writes orders, then wakes |
| `Mk5logd` | mk5logd.py | the loop and the life of every tail and ssh process; SIGTERM at any moment (`Finish`) |
| `Programs` | - | `Pcald`, `Cheks`, `Rad2str`, `Segment`, `FilterBank`, `Mk5logd`, or `Stqkr` with antcn's words: they share no state, and one of them runs |
| `AntennaProofs`, `OnsourceProofs` | - | theorems about antcn and antrcv, each alone, and about both |
| `ReceiverProofs` | - | about the earlier receivers, and `AntennaPrograms` |
| `CommandProofs`, `ServerProofs`, `PipelineProofs` | - | about stqkr, VLBIsend.py and the two joined by antcn |
| `AngleProofs`, `ProgramProofs` | - | about rad2str, the other parts, and `Programs` |
| `MC...` | - | values for TLC |

A comment `Mutant:` or `Slip:` marks a definition that is not the code but a
plausible mistake in it: `PROJECT.json` names the definition it stands in for
and the property that must then fail.

Abstractions that matter: a source stands for its name and coordinates, a
frequency is an integer in hundredths of a MHz (what antcn prints), a broadcast
stands for its pairs up to and after `istmess`, a device answer for whether it
came.  antcn's shared accesses and its datagrams' contents are in two modules
because no property relates them: the on-source decision never looks at what a
datagram says, and the server never at the shared words.  The angle of `Rad2str`
counts tenths of the last place printed; a floating-point product that is wrong
by less than that is wrong by -1, 0 or 1.  `FilterBank` is what `VlbiServer`
takes for done or raised.

## 3. What is model-checked

| Run | Bounds | What it shows |
|---|---|---|
| `antenna_programs` | antcn: all modes, two of no case, two out of range, up to 2 records, junk in `ierr`; antrcv: queue of 2; clientserv: 6 requests per socket | types; antcn's served and refused requests (not mode 4 and the modes of no case) get their own error number in every order, with crashes; `QuietWhileSettling`, `AskvaxQuiet`, `StrictWaits`, `JudgesRecent`: no receiver reports too early while others write the shared words at any moment; `StrictReports` |
| `onsource` | modes 1, 4, 5; queue 1, reaction 2, no deaths, none lost | type, `NoFalseOnsource` and its inductive form `Guarded` |
| `onsource_among` | mode 2; queue 1, reaction 1, one death, commands lost | no false report with a death at any step; `KeepsPromise`: `Onsource` implements `OnsourceService`; it also implements `AntcnSpec` and `AntrcvSpec` |
| `onsource_live` | mode 1; queue 1, reaction 1, none lost | `CoveredRequestExpires`, `VerdictFollows` under fairness |
| `server` | 2 sources, 2 LOs (two IF inputs, one with a hundredth), all devices failing | `Be4Current`, `IfBoxCurrent` for any line in any order |
| `pipeline_cal` | 2 sources (and NONE), 2 LOs, 1 datagram under way, any lost | `Be4Follows`: end to end, the source antcn has and the shared cal state, or cal off while an antcn started again has not been told of it; a lost line is made up for by the next |
| `programs` | 3 orders; 2 modules, 2 settings; 35 angles at every carry and sign, formats with 0 to 2 places; 2 programs with blocks of 0 to 2 cells, 6 cells in all; a frequency for each filter; 5 copies; commands with known, unknown, unreadable and missing arguments | the properties of pcald, cheks, rad2str, the segment, the filter bank and mk5logd; `CalWordsAgree` in every order of commands, restarts and crashes |
| `pipeline_offsets` | 2 offsets, 4 datagrams under way | `OffsetsPaired`: two requests queued, restarts and losses in between; only a lost azimuth mixes two requests |

Why the bounds are enough.  The window of antrcv is 4 broadcasts (`Settle`);
queue 1, reaction 2 and the one in hand use it up exactly, and the proofs cover
every other split.  `elaps` is compared with 4 and 10 only, so values past
those are one.  The server compares for equality: two sources, two LOs and both
values of a cal word give every outcome of every comparison, and its memory is
one line deep.  It handles datagrams one after the other, so only their sequence
counts: one under way at a time gives every sequence of lines, whole or with
any missing; for offsets, whose two datagrams a restart can part, it is four.
Two different offsets suffice to tell a mixed pair.  Six requests
let clientserv fall behind by several and catch none up.  Three orders are the
one in use, the one that replaces it and one written meanwhile; five copies let
mk5logd's failures pass its limit of three.  The structure takes 3 of the 6
cells, so blocks fit, fit alone and do not fit.

Only `programs` turns the deadlock check off: a conversion of `rad2str` returns,
and a pcald whose orders have run out waits for one.

Runs that end in a violation, each a disagreement of code and comment:

- `poll_false_onsource` - mode 5 "make sure that if antenna just sent off but
  not started moving yet, dont falsely report onsrc" (antcn.c:333-334).  antrcv
  tests the flag at line 119 and sets `ionsor` and clears the flag at 125-127: a
  request flagged in between, or a second request while one is flagged, has no
  settle window, and the poll answers on source before the telescope has left.
- `request_never_expires` - "at latest clear new src request"
  (antrcv_multi.c:123).  The test is `elaps == 10`; a request flagged between
  119 and 129 does not restart the count, and if it is past 10 the flag stays
  until the next on-source report.
- `lost_command_reported` - "antenna must get message to change offsets, then
  will report offsource: fivpt and onoff wait until ionsor reports position
  reached" (antcn.c:263-264).  The message is one datagram, sent once; when it is
  lost the telescope stays in measure, and after the settle window antrcv
  reports the position reached.
- `pcal_not_followed` - phasecal= "is controlled by running antcn, sends pcal
  bit" (effpcal.c:16-18).  The server records the pcal word of lines it does not
  act on (a line without a source, a new source, a cal change), so
  phasecal=on, lo=loa, source= leaves the distributor off.

Other disagreements met while modelling and kept in the model: antenna= never
sets `ierr` (antcn.c:306-330) and answers with an earlier request's;
stcom.h:11-12 says the flag falls when the telescope reports slewing, the code
clears it on a measure report; the defaults of `lo=loc` and `lo=lod` go to lob
(efflo.c:65, 74); an antcn started again has both cal words at 0 (antcn.c:156)
and sends them with the next source= (antcn.c:230), though stcom and the report
of cal say on, until cal=, phasecal=, rx= or lo= passes the shared words on:
`CalWordsAgree` and `Be4Follows` say so openly; `rx=` sets one LO and antcn sends the highest (effrx.c:71);
`lo=` clears two LOs of four and is answered as an error (efflo.c:32); the
elevation of an offset request whose azimuth is lost goes out with the azimuth of
the request before (VLBIsend.py:448).

### Fairness

`FairSpec` of `Onsource`: weak fairness of antcn's and
antrcv's statements: both are ordinary processes, and FS restarts them; callers
need not ask.  Strong fairness of `ReadOn`: a broadcast is
finite and has an `istmess` pair, so the loop over its pairs meets it and then
the end.  Weak
fairness of `TakeCommands` and strong fairness of `Broadcast`: the telescope
takes its commands, and the network does not lose everything.  Nothing says the
telescope ever arrives, or stays.

`AntennaFairness`: real_askvax is started again and its statements execute; a
broadcast is received again and again, since the telescope sends one a second.
`ProgramsFairness`: FS, having written pcald's orders, wakes it, which are
consecutive statements of FS's; and pcald's statements execute.  Nothing says that orders or
the death of a process ever come.

## 4. What is proved

Assumed: `QCap \in Nat \ {0}`, `React \in Nat`, and `QCap + React + 1 <= Settle`
(`OnsourceAssumption`): the broadcasts that can still say "measure" of the old
position fit into antrcv's window.  It is the condition on the network under
which the number 4 at antrcv_multi.c:124 is right; with a reaction longer by one
TLC finds a false report.  The other assumptions only give the constants their
types; `ServerAssumption` and `PipelineAssumption` are explained below.

| Theorem | Says |
|---|---|
| `AntcnTypeCorrect`, `AnswersAreOwn` | of antcn, for every set of modes and class size, among arbitrary others |
| `AntrcvTypeCorrect`, `AntrcvIsQuiet` | of antrcv, for every queue length, among arbitrary others |
| `ImplementsAntcn`, `ImplementsAntrcv` | the composed system implements each program's own specification |
| `TypeCorrect` | follows from these, not proved anew |
| `GuardHolds` | the inductive invariant |
| `NoFalseReport` | `Spec => []NoFalseOnsource` |
| `ImplementsService` | `Spec => KeepsPromise`: the composed system implements `OnsourceService` |
| `AskvaxIsQuiet`, `VaxWaits`, `ClientJudgesRecent` | of the earlier receivers, among arbitrary writers and lost datagrams |
| `CalWordsAlwaysAgree` | of stqkr, shared memory and antcn (off until an antcn started again is told), for every set of frequencies |
| `PcaldLateByOne`, `CheksReportsChecked`, `SegmentBlocksApart`, `FiltersAreFollowed`, `Mk5CopiersTold` | for every number of orders, modules, settings, programs, cells, frequencies and copies |
| `RadTextIsNearest`, `RadTextIsAligned` | for every angle |
| `ServerTypeCorrect`, `Be4IsCurrent`, `IfBoxIsCurrent` | of the VLBI server, for every set of sources, frequencies, wraps, offsets and faults |
| `PipelineInvariant` | the inductive invariant of the pipeline |
| `Be4AlwaysFollows`, `OffsetsAlwaysPaired` | end to end, from a command to what be4 is told, for every set of commands and every length of the queue, with losses and restarts |
| `RunsCommands`, `RunsServer` | the pipeline implements the specifications of the commands and of the server |
| `CommandsAreTyped` | the words stored, and the datagrams under way, never more than fit |
| `EarlierTypesHold`, `StationKeepsPromises` | of `AntennaSpec`: whichever program a station runs, the types and what each program promises |
| `ProgramTypesHold`, `ProgramsKeepPromises` | of `ProgramsSpec`: the same of the other parts |

`NoFalseOnsource` is not inductive: a queue that holds an old "measure" behind a
large `elaps` satisfies it and breaks it four steps later.  `Guarded` adds what
keeps that from happening.  A covered request that is not fulfilled (`Owed`) is
either not yet noticed, or antrcv is down with an empty socket, or
`OldNewsIsEarly`: the p-th queued broadcast, if it says measure, was made before
the telescope reacted, and `elaps + InHand + p <= QCap + lag + 1`.  Each
statement of antrcv moves a broadcast one place down this chain (queue,
message, `gstatus`) while `elaps` grows by at most what the place loses, so the
decision never sees an old measure beyond the window.

`Be4Current` is not inductive either: it says nothing while the last datagram was
an offset or a sourceless line, when the server forgets.  `ServerInv` says what
is remembered at any time: if the remembered text is a real line, the
remembered fields are its own (`FieldsFit`), be4 was last told it or POINTING
(`Be4Fits`), the IF box was switched for it (`IfBoxFits`), and it is the last
real line handled (`WantedIsRemembered`).  A line kept from be4 equals the text
or its fields; offsets, sourceless lines and restarts leave no real text.
Assumed (`ServerAssumption`): frequencies in use that are printed alike, to a
tenth of a MHz, have the same IF input, and only -1.0 is printed as the -1.0
that means none; otherwise the server cannot tell their lines apart
(VLBIsend.py:291).

The pipeline.  `Be4Follows` and `OffsetsPaired` look at the server with nothing
on its way; neither says what a queued datagram is, so neither is inductive.
`PipelineInv` joins the invariant of the commands, that of the server, the LOs
that can be stored (`LosTyped`), and `Travels`:

- `LinesFollow`: the last line in the queue carries antcn's present source and
  cal word; when no line is queued, none was lost and the server has handled one
  since it started, the last one it handled does (`wanted`).  A command appends
  a line and so replaces "the last"; the server takes the head, and when that
  was the last line it becomes `wanted`; a loss or a restart voids the promise
  until the next line, which carries all the words again.
- `PairsTravel`: an elevation in the queue follows the azimuth of its own
  request; at the head of the queue the server holds that azimuth, or none since
  it was restarted, or the azimuth was lost.

Every step is a step of the commands' specification and one of the server's, or
leaves their variables alone (`StepOfCommands`, `StepOfServer`); the second
needs `Travels`, since the server's own specification takes well-formed
datagrams only.  That gives `RunsCommands` and `RunsServer`, and `Be4Current`
with `CalWordsAgree` then give `Be4Follows`.  Assumed (`PipelineAssumption`): the
frequencies of the server's model are those that rx= and lo= can store, and a
source has a name.  With `Los` unrestricted the server would be proved against
lines nobody sends; TLC evaluates the assumption on the runs' values.

Programs and parts that run one at a time (`AntennaInv`, `ProgramsInv`): each
keeps its invariant by its own steps.  The parts of `Programs` share nothing, so
the others leave it alone.  Those of `AntennaPrograms` share the flag and
`ionsor`: a program that does not run keeps its pc where it started, there its
invariant says nothing of the shared words but their types, and whichever
program runs keeps those.

`KeepsPromise`: the mapping says `service` is "owed" while a request antrcv could
not miss (`covered`) waits for the telescope (`arrived`), and that a `report` is
an `ionsor` of 1 outside antcn's own handling of the request.  A step that
raises `ionsor` is a `Judge`; that it never happens while the service is owed is
`Guarded` before and after the step, so the refinement rests on the same
invariant as `NoFalseReport`.  A request that overtakes an earlier one, the
antenna= command, a death of antcn and a lost datagram are `Lapse` or `Ask`.

The earlier receivers.  `AskvaxInv`: the flag is cleared only beyond the window,
and what the window ends with is 0.  `VaxInv`: while `departed`, the ladder
stays on its lower rungs between passes (`Below`), because the step up to 3 is
only taken by ten broadcasts in a row or by the very broadcast that is then
counted against the state.  `ClientInv`: what was read, what is queued and what
is asked are in ascending order (`InOrder`), and every read took a request or is
counted as missed (`Counts`).

The other parts.  `PcaldInv`: the copy is the current orders unless FS is
writing or its wake is to be taken (`CopyCurrent`).  `SegmentInv`: a mapped
program's blocks fit, and programs compiled alike write within the same
sections.  `Filtered`: outside a switch both channels agree unless a command
went astray.  `CopyKnown`: `logp` names the copy in hand wherever the daemon
may stop it.  `AngleInv` bounds, at every field, how far the text so far and the
rest of the angle are from the input: a grain for every product.  `CommandInv`
adds only the types to `CalWordsAgree`, which is inductive; `CommandTypeOK` needs
that the frequency of a line is one of the four LOs (`FfloIsAnLo`).

Every invariant and every action property of the passing runs is proved.  Only
model-checked are the liveness properties (`CoveredRequestExpires`,
`VerdictFollows`, `StrictReports`, `StopObeyed`): they rest on fairness and
ENABLED, which are beyond the prover.  The four properties that end in a
violation are false.

## 5. What is not modelled

`PROJECT.json` gives every component a status and a reason.  In short: the text
of reports, the frequency comparison of mode 3, parsing of arguments and
formats, the values the receivers only store (weather, coordinates, times), and
the programs that are stubs, wrappers, examples or superseded copies: sterp,
inject_snap, autoftp and its scripts, hpcounter, donoff, askvax.old.c (the
ladder of real_askvax.c again) and the variants of antcn and the server.
`Segment` has one sizeof(Stcom) for all programs and one STM_SIZE; its mapping
is modelled as the library offers it, and no program in the tree calls it.
`TextAligned` says nothing of the width of the whole part, `CopiersTold` nothing
of a daemon that ends before `logp` is assigned, `AnswerIsOwn` nothing of mode 4
and the modes of no case; the reset of mk5logd's failure count and askvax's test
for exactly 10 are modelled without a property about them.
Of a request that is lost on its way `NoFalseOnsource` and `KeepsPromise`
promise nothing, but still of the next; datagrams between antcn and the server
are not reordered (one hop on the station's own network); devices that accept a
connection and never answer are treated as failing, although the server would
wait for ever (VLBIsend.py:50, 132).

## 6. Plan

Done: the on-source decision with its proofs, its abstract specification and the
refinement; the receivers antrcv_multi.c replaced; the commands, the server and
the pipeline, with its end-to-end proofs; the angles, the segment, the filter
bank, pcald, cheks and mk5logd; the parts together.  Left:

1. the frequency comparison of mode 3 and its table (antcn.c:280-300);
2. what the server owes for phasecal=: `PcalFollows` is what the comment says
   and false; the weaker promise that the code keeps, stated and proved.
