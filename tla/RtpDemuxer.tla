----------------------------- MODULE RtpDemuxer -----------------------------
(***************************************************************************)
(* The demuxers (src/RtpDemuxer.cpp, src/ts/RtpTsDemuxer.cpp,              *)
(* src/raw/RtpRawDemuxer.cpp) on top of RtpFilter and the parsers.         *)
(* check_open is called until it succeeds, and every call appends the      *)
(* sessions of the SDP to those of the filter, which may move the array    *)
(* that ready_session_ points into.  The demuxer of transport streams      *)
(* needs a first sample to succeed; the one of raw streams succeeds at     *)
(* once.  Packets are arbitrary, as in RtpFilter.                          *)
(*                                                                         *)
(* External, modelled from its use here: PacketDemuxer calls check_open    *)
(* again only when it had nothing to read (would_block), and get_sample    *)
(* when it succeeded; peek_sample takes a sample from the same filter; the *)
(* TsDemuxer returns a sample, asks for more (file_stream_error), or       *)
(* fails, and a parser that asks for more leaves the caller's sample empty *)
(* (PushH264 and RtpTsBuffer say more of both).                            *)
(***************************************************************************)
EXTENDS RtpFilter, FiniteSets

CONSTANTS
  MaxOpens,  \* bound on the calls of check_open
  SDPs       \* rtp_infos(): sequences of the types of media

Types == {"video", "audio", "other"}

ASSUME DemuxerAssumption ==
  /\ Tracks \subseteq Nat
  /\ MaxOpens \in Nat
  /\ SDPs \subseteq Seq(Types)
  /\ \A sdp \in SDPs : 0 .. Len(sdp) - 1 \subseteq Tracks

VARIABLES
  kind,      \* which demuxer it is: "ts" or "raw"
  infos,     \* rtp_infos(), the same throughout
  sockets,   \* pairs of RTP sockets in the source's rtp_socket_; 0: it is NULL
  opens,     \* how often check_open was called
  sessions,  \* sessions_.size(); the first ones are those of RtpFilter
  array,     \* how often sessions_ has moved
  readyIn,   \* which of its arrays ready_session_ points into
  parsers,   \* the sessions with a parser
  streams,   \* stream_infos_ of the raw demuxer: the index of each
  state,     \* check_open has succeeded ("open"), failed, or will be tried
  call,      \* who is in RtpFilter::get_sample: peek_sample or a reader
  returned,  \* the track of the sample it returned last
  fault      \* an assert failed, or a NULL pointer was used

demuxVars == <<kind, infos, sockets, parsers, streams, opens, sessions, array, readyIn, state, call, returned, fault>>
allVars   == <<vars, demuxVars>>

Media == 0 .. Len(infos) - 1

(* The source's open has succeeded: it made a pair of sockets for each SETUP, *)
(* and sent one for each medium (RtspServer's SuccessMeansPlaying).          *)
DemuxInit ==
  /\ Init
  /\ kind \in {"ts", "raw"}
  /\ infos \in SDPs
  /\ sockets = Len(infos)
  /\ opens = 0 /\ sessions = 0
  /\ array = 0 /\ readyIn = 0
  /\ parsers = {} /\ streams = <<>>
  /\ state = "closed" /\ call = "none"
  /\ returned = NoTrack
  /\ fault = "none"

----------------------------------------------------------------------------
(* set_streams: push_back may move the array, whether ready_session_ points *)
(* into it or not.                                                          *)
SetStreams ==
  /\ sessions' = sessions + Len(infos)
  /\ \E moves \in BOOLEAN :
       array' = IF moves /\ infos # <<>> THEN array + 1 ELSE array

(* RtpDemuxer::check_open. *)
CheckOpen ==
  /\ fault = "none" /\ call = "none"
  /\ state = "closed"
  /\ opens < MaxOpens
  /\ opens' = opens + 1
  /\ SetStreams
  /\ UNCHANGED <<vars, kind, infos, sockets, readyIn, returned>>

(* add_parser, with its assert. *)
AddParser(i) ==
  /\ fault' = IF i < sessions' THEN fault ELSE "assert"
  /\ parsers' = parsers \union {i}

(* RtpTsDemuxer::check_open up to peek_sample: its parser is made once, for *)
(* the first session.                                                       *)
CheckOpenTs ==
  /\ kind = "ts"
  /\ CheckOpen
  /\ IF opens = 0 THEN AddParser(0) ELSE UNCHANGED <<parsers, fault>>
  /\ call' = "peek"
  /\ UNCHANGED <<streams, state>>

(* Mutant of AddRawParsers: a parser goes to the session with the index of  *)
(* its stream in stream_infos_.                                             *)
AddRawParsersPacked(made) == parsers' = 0 .. Cardinality(made) - 1

AddRawParsers(made) == parsers' = made

(* stream_infos_ after the loop over the media, one of which is pushed when *)
(* its stream could be made.                                                *)
StreamsOf(made) ==
  LET pushed[i \in 0 .. Len(infos)] ==
        IF i = 0 THEN <<>>
        ELSE IF i - 1 \in made THEN Append(pushed[i - 1], i - 1) ELSE pushed[i - 1]
  IN  pushed[Len(infos)]

(* RtpRawDemuxer::check_open: a stream and a parser for each medium that is *)
(* video or audio, has a codec with a parser and a configuration it can     *)
(* read; the other media are passed over.                                   *)
CheckOpenRaw ==
  /\ kind = "raw"
  /\ CheckOpen
  /\ \E made \in SUBSET {i \in Media : infos[i + 1] # "other"} :
       /\ AddRawParsers(made)
       /\ streams' = streams \o StreamsOf(made)
  /\ state' = "open"
  /\ UNCHANGED <<call, fault>>

----------------------------------------------------------------------------
(* A reader calls get_sample of an open demuxer. *)
StartRead ==
  /\ fault = "none" /\ call = "none" /\ state = "open"
  /\ call' = "read"
  /\ returned' = NoTrack
  /\ UNCHANGED <<vars, kind, infos, sockets, parsers, streams, opens, sessions, array, readyIn, state, fault>>

(* A session that becomes ready is pointed to in the array it is in now. *)
PointTo == readyIn' = IF ready = NoTrack /\ ready' # NoTrack THEN array ELSE readyIn

(* One packet of get_sample2: behind a pointer into a freed array nothing   *)
(* is defined, and no step is given for it.                                 *)
TakePacket ==
  /\ fault = "none" /\ call # "none"
  /\ \/ PopReady /\ readyIn = array
     \/ sockets > 0 /\ \E p \in Packet : p.track \in Media /\ Fetch(p)
  /\ PointTo
  /\ UNCHANGED <<kind, infos, sockets, parsers, streams, opens, sessions, array, fault>>

Parsed == out'.pkt # Hole /\ out'.pkt.track \in parsers

(* The loop of get_sample goes on: no packet came out, its session has no   *)
(* parser, or the parser needs more.  (An RTCP packet changes nothing.)     *)
LoopOn == TakePacket /\ UNCHANGED <<state, call, returned>>

(* The parser leaves a sample with data: a peek has succeeded, and with it  *)
(* check_open; get_sample returns.                                          *)
Deliver ==
  /\ TakePacket
  /\ Parsed
  /\ returned' = out'.pkt.track
  /\ state' = "open"
  /\ call' = "none"

(* Mutant of PushFails: it is reported like an empty socket. *)
PushFailsSoftly ==
  /\ kind = "ts"
  /\ TakePacket
  /\ Parsed
  /\ returned' = NoTrack
  /\ UNCHANGED state
  /\ call' = "none"

(* RtpTsParser::push fails, for good. *)
PushFails ==
  /\ kind = "ts"
  /\ TakePacket
  /\ Parsed
  /\ returned' = NoTrack
  /\ state' = "failed"
  /\ call' = "none"

(* private_read_some goes through rtp_socket_, which may be NULL. *)
ReadSome == fault' = IF sockets = 0 THEN "null" ELSE fault

(* Nothing to read: get_sample returns false, and check_open with it. *)
WouldBlock ==
  /\ fault = "none" /\ call # "none"
  /\ FetchNothing
  /\ ReadSome
  /\ returned' = NoTrack
  /\ call' = "none"
  /\ UNCHANGED <<kind, infos, sockets, parsers, streams, opens, sessions, array, readyIn, state>>

(* An open demuxer is sought; the TS parser keeps what its buffer holds. *)
Seek ==
  /\ fault = "none" /\ call = "none" /\ state = "open"
  /\ BeforeSeek
  /\ returned' = NoTrack
  /\ UNCHANGED <<kind, infos, sockets, parsers, streams, opens, sessions, array, readyIn, state, call, fault>>

DemuxNext ==
  \/ CheckOpenTs \/ CheckOpenRaw
  \/ StartRead
  \/ LoopOn \/ Deliver \/ PushFails
  \/ WouldBlock
  \/ Seek

DemuxSpec == DemuxInit /\ [][DemuxNext]_allVars

----------------------------------------------------------------------------
(* ready_session_ points into the sessions_ there are, though check_open    *)
(* appends to them whenever it is tried again: the filter has nothing to    *)
(* read only when no session is ready (src/RtpFilter.cpp:33, 76, 123).  The *)
(* caller must not try again after an error of a parser.                    *)
ReadyInPlace == ready # NoTrack => readyIn = array

(* The index given to add_parser is one of a session: so its assert says    *)
(* (src/RtpFilter.cpp:42).  It does not hold: the demuxer of transport      *)
(* streams adds a parser for the first session of whatever SDP there is     *)
(* (src/ts/RtpTsDemuxer.cpp:48), and parse_sdp takes one without media.     *)
ParserHasSession == fault # "assert"

(* A sample of the raw demuxer belongs to one of its streams, and to the    *)
(* one at its own index in stream_infos_ unless a medium before it was      *)
(* passed over (src/raw/RtpRawDemuxer.cpp:64, 71-76).                       *)
SampleHasStream ==
  kind = "raw" /\ returned # NoTrack =>
    /\ \E k \in DOMAIN streams : streams[k] = returned
    /\ 0 .. returned - 1 \subseteq parsers => streams[returned + 1] = returned
=============================================================================
