# just-rtspc in TLA+

`just-rtspc` is an RTSP/RTP client library: it opens an RTSP session (or takes
the sink's part in a Wi-Fi Display session), reads RTP packets from a pair of
UDP sockets, puts them back in order, and turns them into media samples. This
directory holds a TLA+ model of its logic, the TLC runs that check it on small
instances, and proofs, checked by TLAPS, of what matters most in the filter and
its network, the sessions and their owners, the demuxers and the TS buffer.

`PROJECT.json` lists components, runs, mutants, hazards, findings and theorems,
and for every definition the lines it models.

## Inventory

| component | state | operations | what makes it correct |
|---|---|---|---|
| `RtpFilter` (`src/RtpFilter.cpp`) | per track `seq_base` and a deque of packets that came too early; `ready_session_`, the one session being drained | `get_sample2`, `get_sample`, `before_seek`, `set_streams`, `add_parser` | a slot belongs to its number; nothing that arrived disappears; order within the window; the discontinuity flag tells the truth |
| `RtpParser` (`src/RtpParser.cpp`) | `sample_`, the sample under assembly, with its flags | `push`, `before_seek` | only whole samples come out, flagged exactly after a gap |
| `RtpH264Parser`, `RtpMpeg4GenericParser` (`src/raw`) | the rebuilt NAL headers and the sizes of the units; three configured lengths | `push`, `before_seek` | the units of a frame and their headers are those sent |
| `RtspSource` (`src/RtspSource.cpp`) | `request_`, edited and posted again by every handler; `setup_step_`, `rtp_infos_`, `rtp_socket_`; the handler `resp_` | `async_open`, `handle_connect`, two `on_recv`, `on_error`, `close`, `cancel` | the open is answered once and only once; a response is read as the answer to its request; a legal dialogue; success means the media play |
| `RtspSourceWfd` (`src/RtspSourceWfd.cpp`) | the same | the two `on_recv`, `on_connect` | the same, though the server asks first |
| `RtpTsBuffer` (`src/ts/RtpTsBuffer.h`) | a deque of packets, an iterator into it, the offset of the last sample of each track | `put`, `get`, seeks, `underflow` | the stream's bytes are those put, what is still needed is kept, the iterator survives the packets freed before it |
| `RtpTsParser` (`src/ts/RtpTsParser.cpp`) | the buffer and the `TsDemuxer` that reads it | `push`, `before_seek` | a packet gives a sample, nothing, or an error for good |
| `RtpDemuxer`, `RtpTsDemuxer`, `RtpRawDemuxer` | `filter_`, `ts_parser_`, `stream_infos_` | `check_open`, called until it succeeds | the sessions grow under a filter at work; a sample has its stream |
| `RtspMedia` (`src/RtspMedia.cpp`) | `source_`, `info_` | `async_open`, `handle_open`, `cancel`, `close` | each open is answered, with the info of its source; a close in time is not followed by success |
| `RtpInfo`, registration, version | none of their own | | |

**How they interact.** `RtspMedia::async_open` makes an `RtspSource` and opens
it; the handler it binds is the media's, and reads whatever `source_` is when it
runs. The source talks to the server over `util`'s `RtspSession`, which calls
`on_recv`, `on_sent` and `on_error` from its reader and its writer. When the
open has succeeded a demuxer's `check_open` gives `rtp_infos()` to an
`RtpFilter`, one session per medium, and adds a parser per track; the demuxer of
transport streams then needs a first sample, and is asked again, from the start,
until it has one. From then on
the demuxer pulls: `RtpFilter::get_sample` takes packets from the filter below
it through `get_sample2`, hands each to the parser of its track, and returns
when a parser leaves a sample with data. For MPEG-TS the parser puts the
payload into an `RtpTsBuffer`, which a `TsDemuxer` reads as a stream.

**What is hard.** Everything runs on one `io_service`, so there are no data
races; the hard part is order. Packets are lost, repeated and overtake each
other, and 16-bit numbers wrap; a filter with one `ready_session_` serves
several tracks. In the session, responses, requests of the server, a refusal, a
failing socket, a broken connection and a `close` interleave, while one
`request_` object stands for "what was asked last" and one `resp_` for "who is
waiting". The owner of a media may open it again, cancel and close it while all
this is under way. In the parsers and the TS buffer a loss in the middle of a frame, or
a packet freed under an iterator, must leave state that the next frame finds
clean. `PROJECT.json` lists the hazards line by line, with the properties that
cover them, or why none does.

## Modules

| module | models | composes |
|---|---|---|
| `RtpFilter` | the sessions of `RtpFilter` under any packets at all | |
| `RtpFilterProofs` | theorems about `RtpFilter` | `RtpFilter` |
| `OrderedDelivery` | what a reordering buffer promises | |
| `RtpReorder` | the filter behind a network that loses, repeats and reorders | `RtpFilter`, refines `OrderedDelivery` |
| `RtpReorderProofs` | theorems about `RtpReorder`, and of its refinement | `RtpReorder`, `RtpFilterProofs` |
| `RtpParser`, `RtpH264Parser` | assembly of samples from packets | |
| `RtpReceiver` | `RtpFilter::get_sample`: network, filter and parsers | `RtpReorder`, `RtpH264Parser` |
| `RtpReceiverProofs` | theorems about `RtpReceiver` | `RtpReceiver`, `RtpReorderProofs` |
| `RtpDemuxer` | the demuxers' `check_open` over the filter, and `get_sample` | `RtpFilter` |
| `RtpDemuxerProofs` | theorems about `RtpDemuxer` | `RtpDemuxer`, `RtpFilterProofs` |
| `RtspSource` | the handlers of the client side of a session | |
| `OpenOnce` | what a source promises to its owner | |
| `RtspServer` | the source with a server | `RtspSource`, refines `OpenOnce` |
| `RtspServerProofs` | theorems about `RtspServer` | `RtspServer` |
| `RtspMedia` | `source_` over the calls of the media's owner | sources that are `OpenOnce` |
| `RtspMediaProofs` | theorems about `RtspMedia` | `RtspMedia` |
| `RtspSourceWfd` | the handlers of the Wi-Fi Display sink | `RtspSource` |
| `RtspServerWfd` | the sink with a Wi-Fi Display source | `RtspSourceWfd`, `RtspServer` |
| `RtspServerWfdProofs` | theorems about `RtspServerWfd` | `RtspServerWfd` |
| `ByteStream` | what a reader of the TS buffer relies on | |
| `RtpTsBuffer` | the buffer, its iterator, and a demuxer that reads it | refines `ByteStream` |
| `RtpTsBufferProofs` | theorems about `RtpTsBuffer`, and of its refinement | `RtpTsBuffer` |
| `MC*` | constants for TLC | |

### RtpFilter

`seqBase`, `samples`, `ready` are `seq_base`, `samples`, `ready_session_`;
`out` is what `get_sample2` returns. One step is one iteration of its loop:
`PopReady` is lines 71-81, `FetchInOrder`, `FetchLate` and `FetchUnordered` the
three branches with the tail of the loop body, `FetchNothing` an empty socket
or an RTCP packet, `BeforeSeek` the session part of `before_seek`. The loop that
gives up missing numbers is not a recursion: `Skips(s, d, k)` says that it ends
after k rounds, the first k at which `SkipStops` holds. `SeqMod` is 2^16 and
`Window` 8 in the code; both are constants with the weakest assumptions.

Taking `front()` of an empty deque is undefined, so no step is given for it;
`Undefined` names the state, and `UndefinedOnlyBySeek` who can lead there.

A packet is a track, a number and an identity: `parse` is what maps the one on
the wire to it. What a `Sample` does is external and modelled from its use: it
owns its memory block and an assignment hands the block over.

### RtpReorder and OrderedDelivery

The network keeps for each track the packets not arrived yet; one may arrive
before others sent up to `Ahead` places before it, be lost (at most `Losses` of
a track), or arrive again (at most `Dups`). `OrderedDelivery` says: packets in
order, one passed over only when it is lost, the flag exactly on those after a
gap.
`ImplementsOrderedDelivery` is the refinement, with `last` mapped to the
greatest packet returned and `handed` to `out`. It holds when packets overtake
fewer than `Window` others. At exactly the window it does not: a packet that
completes a full window can come right after the numbers before it were given
up, and is then taken for the required one without a flag
(`src/RtpFilter.cpp:91` and `:112`); beyond the window the weaker properties of
`reorder_excess` remain.

### RtpParser, RtpH264Parser, RtpReceiver

`kept` is `sample_`, one per track, and `taken` the caller's sample after
`push`. A sample's data is a sequence of pieces that count 1 each: payloads, and
headers that point to a cell of `buf_`; `moved` counts its resizes, so that a
pointer from before one is told from a good one. `naluSizes` and `naluCount` are
the vector and counter with its sentinel. `RtpReceiver` takes every packet the
filter returns straight to the parser, as `get_sample` does within one call;
tracks without a parser are skipped. `cut` says that a seek came inside a frame
or while packets waited: `before_seek` resets the caller's sample and not
`sample_`, so the size, the flags and the frame after such a seek are wrong and
the properties leave it out. A seek between frames is harmless, and checked.

### RtspSource and RtspServer

`method`, `session`, `transport` are fields of `request_`; `infos` is
`rtp_infos_`, each entry the medium whose sequence it has; `made` and
`connected` count the RTP sockets; `pending` says that `resp_` is set, `answers`
is the history of its calls, `thrown` that an empty one was called. An action is
a handler; `NextSetup` is the part that the cases `describe` and `setup` share.
`create_transport` and `connect_transport` may fail; since they share one
`error_code` the first may or may not clear the error of the second, and both
are modelled. The server is external: it answers in order, may refuse anything,
describes any number of media, and sends requests of its own at any time.
`Close` may come at any time, also before the connection stands.

A stop, or the loss of the connection, only keeps anything new from coming.
`RtspSession`'s reader and writer each report it once, in any order
(`reporters` are those who have not), and what had come before may still be
handed to `on_recv` until the reader reports (`Readable`): its completion is in
the `io_service` already, and no handler looks whether the source was stopped.
So the answer to PLAY may be read after a `close`, and the open then succeeds
(`src/RtspSource.cpp:167-179`). And when it is the writer that reported first,
`on_error` has answered the open, and an answer that the reader still hands over
calls an empty `resp_` (`:217`): boost throws, and nothing after it is modelled.
`AnsweredOnce` says that this is the only way to it.

### OpenOnce and RtspMedia

`OpenOnce` has three variables: how far the open is, whether it was granted, and
whether the source was stopped. It is answered at most once, it succeeds only if
it was granted, and it is not granted after a stop; a grant that was on its way
at the stop may still win, which is all the code gives.
`ImplementsOpenOnce` says that `RtspServer`, the whole dialogue, is no more than
that to its owner: `status` maps to `pending` and the last of `answers`,
`granted` to the server's `playing`, `stopped` to itself. `RtspMedia` is built on it: the n-th `async_open` makes
source n, whose steps are those of `OpenOnce`, so that what the media's runs and
proofs show holds over the real sources.

`source` is `source_`; `posted` are the answers that wait in the `io_service`
because no source could be made; `resps` is what the owner's handlers were called
with, `info` whose info `info_` has, `withdrawn` (a history variable) that the
owner closed or cancelled since its last open, before the server granted that. A NULL `source_` that is dereferenced ends the run in
`fault`. The owner may call anything at any time, and open again before the
answer: then the first source lives on, unreachable, and its answer is handled
with the second one's info. The properties say exactly this (`n < opens` is an
open that a later one orphaned) and no more.

### RtpDemuxer

The module extends `RtpFilter`, whose every step it uses unchanged. `sessions`
and `array` are the size of the vector and how often it has moved, which
`push_back` may do; `readyIn` is the array `ready_session_` points into.
`CheckOpenTs` is `check_open` up to `peek_sample`, which then runs step by step
(`call`): `LoopOn`, `Deliver`, `PushFails` are the three ways one packet of the
loop of `get_sample` ends, `WouldBlock` ends it without a sample. `state` says
whether `check_open` will be tried again. `RtpFilter`'s sessions are the first of
the vector: those that later calls append have no parser and no packets, since a
packet's track comes from the media of the one SDP, which is why
`DemuxerUsesFilter` holds. `CheckOpenRaw` chooses freely which video and audio
media have a codec and a configuration that can be read. `sockets` is how many
pairs of RTP sockets the source made, as `SuccessMeansPlaying` has it: one for
each medium. With none, `rtp_socket_` is NULL and `ReadSome` faults.

`ReadyInPlace` depends on `check_open` being repeated only after an empty
socket: at that time no session is ready. The caller, outside this repository,
must treat an error of a parser as final.

### RtspSourceWfd and RtspServerWfd

The sink edits `request_` as it is told and posts it behind the answer to every
request of the server, as long as it has a method. This is right only for a
server that waits its turn: `late` records that the server asked while something
was under way or after the open was answered, and the safety properties are
stated for sessions that are not late. After a late request a second SETUP or
PLAY goes out and its answer calls an empty `resp_`. `escaped` is the
exception that leaves `on_recv` when `create_transport` fails.

### RtpTsBuffer and ByteStream

A buffer in `packets` carries the stream position of its first byte, which is
how the refinement compares what is read with what was asked for. `SetTo`,
`Inc`, `Drop` are the iterator's operations with its two levels of indices
(from 1 here). External: the demuxer seeks after a put and before it reads, and
a sample it returns lies between the start of the last sample of its track and
its own position, in one or two blocks.

## Runs

| run | instance | shows |
|---|---|---|
| `filter_open` | two tracks, 6 numbers, window 2, two identities | the four invariants and three action properties of `RtpFilter` under every packet in every order, with seeks |
| `reorder_orderly` | window 3, 6 packets a track: one overtakes 2 and loses 2, one is in order across the wrap, one overtakes 3 and loses none | refinement of `OrderedDelivery`; on a track without losses `seq_base` is the next required number and everything is delivered |
| `reorder_excess` | window 2, overtaking 4, one loss of each track, one repetition | nothing that arrived is lost; no false flag; order is given up only beyond the window |
| `reorder_wrap` | two packets swapped at the wrap | **finding**: `seq_base` is not the next required sequence |
| `receiver` | window 3, overtaking 2, two losses of the video and one of the other track, one seek, three streams of 7 packets, vectors of 2 | H.264 samples are whole frames, with their units and headers; flags mark the gaps; only broken frames are dropped |
| `demuxer` | two tracks, 4 numbers, window 1, 3 calls of `check_open`, SDPs without media, with one and with two | the sessions grow only when no pointer into them is in use; a sample has its stream |
| `demuxer_assert` | the same | **finding**: the assert of `add_parser` fails for an SDP without media |
| `rtsp_dialogue` | up to 3 media, 2 requests of the server, a report of the reader and one of the writer | four safety properties of the session, refinement of `OpenOnce`, and that it is answered |
| `media` | 3 opens | each open is answered, with its own info, and not with success after a close in time; only a `cancel` finds no source |
| `wfd_dialogue` | 5 requests of the Wi-Fi Display source | the same of the sink, for a source that waits its turn |
| `ts_buffer` | 4 bytes, payloads of one to three buffers, some empty, two tracks | the iterator, its range, what is freed, refinement of `ByteStream` |
| `ts_buffer_assert` | the same | **finding**: the assert of `get` fails for the first sample of a silent track |

**Why the bounds are enough.** The window and the modulus only matter by
comparison: 6 numbers leave room for jumps within and beyond a window of 2 from
every base, at both ends of the range. With 6 packets and a window of 2 or 3 a
track fills its window, overruns it and recovers. Two tracks are the least at
which one pointer can forget a session. Seven packets make at least three
frames, so that a gap can begin in one, swallow one and end in a third. Three
media tell the first, a middle and the last SETUP. Four bytes in packets of
two, with empty buffers, give packets that end exactly at, before and after a
freed position. Three opens give one
that is orphaned, one that orphans and is orphaned, and a last one; three calls
of `check_open` move the sessions before the first packet, between packets and
after them. Deadlock is not checked where the system may stop: a
session that is answered and closed, a stream of bytes that has come to its
bound, a filter after a seek that left it undefined.

**Fairness.** `RtpReorder`: the `io_service` reads while packets come, and the
caller of `get_sample` calls again while it gets samples; nothing is ever forced
to be lost. `RtspServer`: a connection attempt ends, what has been received is
handled, the server answers while the connection stands, and a broken
connection is reported; no failure is forced. `RtspMedia`: the `io_service` runs what was
posted to it, and a source answers its open, which is what `EventuallyAnswered`
shows of `RtspServer` (and `WfdEventuallyAnswered` of the sink, unless an
exception leaves it; an exception ends the `io_service`'s run, and so every
promise); the owner is never forced to call anything. In `RtspServerWfd` the source also
goes on to its trigger. The code has no timeouts: a server that stays silent
leaves the open pending for ever, which is why its answering is an assumption.

**Mutants.** Every property is broken by a mutant of the code it is about, kept
as an operator beside the definition it replaces (its comment begins with
"Mutant"): a window off by one, a slot not popped, a pointer not reset, a guard
dropped, a request posted before it is edited.

**Findings.** (1) `get_sample2` compares 16-bit numbers with `<`
(`src/RtpFilter.cpp:96`): a packet that crosses the wrap early is "late", is
handed over at once and never counted, and `seq_base`, which
`src/RtpFilter.h:67` calls the "next required sequence", ends up on a number
already delivered. (2) `RtpTsBuffer::get` frees by the tracks that have had a
sample (`src/ts/RtpTsBuffer.h:56-71`); a track whose first sample began earlier
finds its bytes gone, and `assert(!iter.invalid(pos))` at `:43` fails.
`SeenTracksKept` shows that only a first sample can meet this. (3) `parse_sdp`
takes an SDP without media (`src/RtspSource.cpp:308-309`) and the open goes
straight on to PLAY; `RtpTsDemuxer::check_open` then adds a parser for session 0
(`src/ts/RtpTsDemuxer.cpp:48`), and `assert(index < sessions_.size())` in
`add_parser` (`src/RtpFilter.cpp:42`) fails.

## Proofs

`RtpFilterProofs` proves, for every set of tracks, every window, modulus, base
and set of packets (`FilterAssumption` is all that is assumed), the seven
properties of `filter_open`: `TypeCorrect`, `AlwaysAligned`, `AlwaysOneLap`,
`AlwaysDrainFirst`, `AlwaysNothingDiscarded`, `AlwaysReturnsRequiredOrLate`,
`AlwaysUndefinedOnlyBySeek`.

The inductive invariant is `IInv == TypeOK /\ Aligned /\ OneLap /\ DrainFirst`.
None of its parts is inductive alone. `Aligned` (a slot holds the packet of its
own number) would break when `seq_base` wraps under a deque that is not empty;
`OneLap` (`seq_base` plus the length stays within the range, and the last slot
is a packet) excludes that, and is itself kept because a packet is stored only
at its distance from `seq_base`, which `Aligned` and the types bound.
`DrainFirst` (a ready session is the one drained) is what makes the pop of line
94 pop an empty slot, and with `Aligned` it gives `NothingDiscarded`: the loop
that skips stops at the first packet. The operations on a deque are treated
once, for one session, in `DropFirstFacts`, `PutAtFacts`, `SkipFits`, `PopFits`
and `PutFits`, by way of `Fits`; `StepIInv` has a lemma per action. The action
properties follow from the invariant and a lemma about the steps
(`ReturnsStep`, `DiscardStep`).

`RtspServerProofs` proves, for every number of media and of the server's
requests, `AnsweredOnce`, `InStep`, `LegalDialogue`, `SuccessMeansPlaying` and
the refinement of `OpenOnce` (a success has `Told` behind it, which says that the
server plays); assumed are `SourceAssumption` and
`ServerAssumption`, which only say that bounds are numbers and a session has a
name. The invariant `SInv` says three things. *At most one message of the
dialogue is under way* (`OneUnderWay`): this is inductive only because whoever
posts one has just read one (`ReadResponse`, `PostOnly`), and because requests
of the server and their answers do not count (`OthersStay`). *It belongs to its
place* (`Asked`, `Told`): while a SETUP is on its way, `setup_step_`, the sockets
made, the media set up at the server and the session fit each other, and
likewise before it and for PLAY; that is what makes the next request legal. *It
is awaited* (`pending \/ Reported` in both): nothing is under way without
`resp_`, but when a reader or writer has reported the end of the connection and
so answered the open; it is the reader then that must still report, or nothing
could be read any more (`ResponseRead`). After any other
failure the dialogue is quiet and stays so. `InStep` and `LegalDialogue` alone
are not inductive: they say nothing of what the response in flight will let the
source do.
The types of the session and of the media (`ServerTypeCorrect`,
`MediaTypeCorrect`) are proved and not run again by TLC.

`RtspMediaProofs` proves the three safety properties of `media` for any number of
opens, from `MInv`: an open is known to its source or to the queue, not to both;
`source_` is the source of the last open; what the owner withdrew is stopped and
was not granted, and so never will be.

`RtpDemuxerProofs` shows that a demuxer's every step is one of `RtpFilter` or
leaves the filter alone (`DemuxerUsesFilter`), so that the filter's theorems hold
under it, and from `DrainFirst` that `check_open` never moves the array under
`ready_session_`, for any SDPs and any number of calls.

For the streams that `CheckOpenRaw` makes it proves `SampleHasStream`, along the
media one after the other (`Streamed`): the streams of the first k media are
known when those of k - 1 are.

`RtpReorderProofs` puts the network in front. `ReorderImplementsFilter` carries
every theorem of `RtpFilterProofs` over; the others need to know which packets
are where, which is `NInv == IInv /\ NetOK /\ Genuine`: what the buffer holds
and what was returned has arrived, under the number it was sent with. Each
theorem names the networks it is about:

- `AlwaysNothingLost` holds whatever is lost, repeated or overtakes, for streams
  of at most one lap of the numbers (`WithinALap == Sent <= SeqMod`). Beyond a lap
  it is false: two packets of one number meet in one slot (TLC finds it with 5
  packets and 4 numbers).
- `FlagNeverFalse` and `WindowHonoured` hold under any network for numbers that do
  not wrap (`NoWrap`), from `OInv`: everything returned is behind `seq_base`, and
  of what is behind it and was not returned one sent more than `Window` places
  later has arrived. With a wrap both fail, which is the first finding.
- `AlwaysNextRequired` and `ReorderImplementsOrderedDelivery` are about an
  `Orderly` network: it repeats nothing, and each track either is in order without
  loss, where the numbers may wrap any number of times, or does not wrap and
  overtakes fewer than `Window` places (`Window` if it loses nothing). `CInv` says where each track stands (`Place`):
  at a packet n before which all was returned or lost, and if the last packet
  returned was not n - 1 then n itself is lost, so that the next one comes out of
  a gap that was given up and carries the flag. A refinement that only knew
  `seq_base` could not say when the flag is due.

`RtpReceiverProofs` adds the parsers, and proves the five properties of
`receiver` for any number and kind of tracks, any H.264 stream, any size of the
vectors and any number of losses and seeks: `AlwaysWholeFrames`,
`AlwaysHeadersIntact`, `AlwaysNalusAreUnits`, `AlwaysGapsFlagged`,
`AlwaysOnlyBrokenDropped`. They are about `Steady` networks: the `Orderly` ones but
for a track that overtakes by `Window` places exactly. There a seek that drops
what waits is a loss, which an `Orderly` network need not survive. The first and
the third are also about `WellFormed` streams, whose
fragments follow each other and agree on whether the unit is an IDR: the parser
takes both from the sender on trust, and counts and flags by the first and
the last fragment only. The instance of `receiver` satisfies both.

The invariant is `RInv`: unless a seek cut a frame, `CInv` holds, and with l the
last packet of `Video` returned (`Stands(l)`), either `sample_` is not flagged as
broken and is `Intact`, or it is `Broken`. `Intact(l)` says that `sample_` is
the frame under way from some packet i to l and nothing else, that it is flagged
when i is not the one after the last frame handed over, that `bufUsed` counts its fragmented
units and their headers are in the cells, and that `naluSizes` has the sizes of
its units, the last one perhaps not ended. Before the first packet of a frame
that is the empty sample with i = l + 1, which is what a hand-over, a discard and a
seek between frames must leave (`EmptiedIntact`). `Broken(l)` says that a packet
was lost since the last mark that came, or with it; that is why a frame is dropped, and why
the mark that was lost may be the one before the frame. No property of the
run is inductive without it: what is handed over depends on what every packet
since the last mark did to four variables. A step is one packet brought in order
with the right flag (`CallBrings`, from `CInv`), and then either `IntactStep` or
`BrokenStep`, or it leaves the parser of `Video` alone (`UntouchedStands`). What the parser
computes is proved once, for one packet: `GrownContains`, `GrownHeaded`,
`GrownCounted`, `MarkedUnits`. That `nalu_sizes_` is read up to the right sentinel, though
it also has sizes of earlier frames, is `UnitsFacts`: those of this frame are
positive. TLC has checked `RInv` on the instance of `receiver`.

`reorder_excess` is `NoWrap`; `reorder_orderly` is `Orderly`, with a track of each kind.

`RtspServerWfdProofs` proves the three safety properties of `wfd_dialogue` for any
number of requests of the Wi-Fi Display source. `WInv` says that as long as no
request was late the dialogue is in one of five places (`Between` two requests,
`Asking`, `Requesting`, `Answered`, `Over`), each of which fixes what is under
way in both directions, what `request_` holds, and who waits; and that the open
is awaited until it is over or a report has answered it. A late request ends all that, and nothing is
claimed after it.

`RtpTsBufferProofs` proves, for any payloads, with empty buffers wherever they
like, any number of bytes and any order of puts, seeks, reads and samples, the
two invariants of `ts_buffer`, `SeenTracksKept` and the refinement of
`ByteStream`. `BufferAssumption` is what is assumed; that `NoData` is no sample
only tells the model's marker from data. The invariant is `TInv`: the packets and their
buffers lie one after the other from `pos` to `end` (`Laid`); the iterator
is at the beginning of a buffer, or at the end (`InPlace`), and `buf` is that
buffer once the demuxer has sought (`Holds`); the offsets kept are in the stream
(`Kept`). `IteratorInPlace` alone is not inductive, since it does not say that the next packet
begins where this one ends, which `inc` and `set` rely on. What the iterator's loops do is proved
of each loop: `Telescope` (the sizes between two places sum up to their
distance) for the two loops of `set`, so that they find the buffer of a position (`SetToFacts`);
`Counts` (buffers are numbered across the packets, and each round of `inc` adds
one) so that `inc` ends before the packets do (`IncFacts`); and the bytes a
block is made of (`CollectFacts`). `DropFacts` shows that the iterator survives the packets freed
before it: they end by the offset of a sample, which is before the reader.
The sums and the loops are recursive functions; what they do for every length is proved by
induction over the numbers of a set that has a least one (`CountUp`), which needs
no operator as a parameter.

Only model-checked: liveness (`AllDelivered`, `EventuallyAnswered` and the like), which needs
ENABLED and is out of the prover's reach. Every safety property of the passing
runs is also a theorem.

## Not modelled

The text of messages, SDP, headers and bit streams; `on_sent`, which prints; the
synchronous `open`, which never connects; the wrappers of `rtp_socket_`;
`get_next_sample` and `get_last_sample`, which look at packets past the
sessions; the timestamps and their wrap, which are arithmetic of an external
`LimitNumber`; who deletes a source (the destructor of `RtspMedia` leaves it to
itself); what a `TsDemuxer` makes of a stream; RTCP, whose memory is kept until the next sample; registration,
versions, build. The libraries underneath are external and modelled from their
use, as each module's head says.

## Plan

Done: every component that keeps state; the proofs of the filter and its
network, of both sessions, the media, the demuxers, the TS buffer and the
parsers. To come: an abstract specification of what `get_sample` promises, frame
by frame, that `RtpReceiver` implements by `RInv`; and the frames of a track that
overtakes by `Window` places without losses, when nothing seeks.
