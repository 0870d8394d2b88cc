------------------------------- MODULE Codecs -------------------------------
(***************************************************************************)
(* What the agent makes of the SDP of its camera: ParseCodecs              *)
(* (src/rtsp_client.go), filterSupported and firstSupported                *)
(* (src/source.go), codecs and caps (src/agent.go).  A line of the SDP is  *)
(* a media line with its payload types, an rtpmap with its codec name, or  *)
(* one that ParseCodecs passes over.                                      *)
(***************************************************************************)
EXTENDS Naturals, Sequences

MediaLine(media, types) == [kind |-> "m", media |-> media, types |-> types, name |-> ""]
Rtpmap(name)            == [kind |-> "rtpmap", media |-> "", types |-> <<>>, name |-> name]
OtherLine               == [kind |-> "other", media |-> "", types |-> <<>>, name |-> ""]

\* Said to be `in order of preference`, which nothing below asks for.
supportedVideo == <<"h264", "h265", "vp8", "vp9", "av1">>
supportedAudio == <<"pcmu", "pcma", "opus">>

\* Both functions look a name up from the first entry to the last.
Listed(name, supported) == \E k \in 1 .. Len(supported) : supported[k] = name

\* A loop that appends to a list: what it has after each of its rounds, each
\* of which appends a part.
Appending(parts) ==
  LET list[i \in 0 .. Len(parts)] == IF i = 0 THEN <<>> ELSE list[i - 1] \o parts[i]
  IN  list

AllOf(parts) == Appending(parts)[Len(parts)]

\* Static payload types: 0 and 8 need no rtpmap.
StaticName(type) ==
  CASE type = 0 -> <<"pcmu">>
    [] type = 8 -> <<"pcma">>
    [] OTHER    -> <<>>

StaticNames(types) == AllOf([i \in 1 .. Len(types) |-> StaticName(types[i])])

----------------------------------------------------------------------------
(* ParseCodecs: what it holds after each line.                             *)

Empty == [media |-> "", mapped |-> FALSE, static |-> <<>>, Video |-> <<>>, Audio |-> <<>>]

\* The end of a media section: the static codecs count if no rtpmap was seen.
Static(p) == IF p.media = "audio" /\ ~p.mapped THEN p.static ELSE <<>>

FlushKeepingRtpmap(p) == [p EXCEPT !.Audio = @ \o Static(p), !.static = <<>>]

Flush(p) == [p EXCEPT !.Audio = @ \o Static(p), !.mapped = FALSE, !.static = <<>>]

ParseLine(p, line) ==
  CASE line.kind = "m" ->
         [Flush(p) EXCEPT
            !.media  = IF line.media \in {"video", "audio"} THEN line.media ELSE "",
            !.static = IF line.media = "audio" THEN StaticNames(line.types) ELSE <<>>]
    [] line.kind = "rtpmap" /\ p.media = "video" ->
         [p EXCEPT !.Video = Append(@, line.name)]
    [] line.kind = "rtpmap" /\ p.media = "audio" ->
         [p EXCEPT !.Audio = Append(@, line.name), !.mapped = TRUE]
    [] OTHER -> p

Parsing(sdp) ==
  LET p[i \in 0 .. Len(sdp)] == IF i = 0 THEN Empty ELSE ParseLine(p[i - 1], sdp[i])
  IN  p

ParseCodecs(sdp) ==
  LET p == Flush(Parsing(sdp)[Len(sdp)])
  IN  [Video |-> p.Video, Audio |-> p.Audio]

----------------------------------------------------------------------------
(* What the agent publishes and uses.                                      *)

filterSupported(announced, supported) ==
  AllOf([i \in 1 .. Len(announced) |->
           IF Listed(announced[i], supported) THEN <<announced[i]>> ELSE <<>>])

firstSupported(announced, supported) ==
  IF \E i \in 1 .. Len(announced) : Listed(announced[i], supported)
  THEN announced[CHOOSE i \in 1 .. Len(announced) :
                   /\ Listed(announced[i], supported)
                   /\ \A j \in 1 .. i - 1 : ~Listed(announced[j], supported)]
  ELSE ""

caps(info)   == [Video |-> filterSupported(info.Video, supportedVideo),
                 Audio |-> filterSupported(info.Audio, supportedAudio)]
codecs(info) == [Video |-> firstSupported(info.Video, supportedVideo),
                 Audio |-> firstSupported(info.Audio, supportedAudio)]

----------------------------------------------------------------------------
(* Reference: what each line of the SDP announces, by its section alone.   *)

\* The media line whose section line i is in; 0 before the first.
Section(sdp, i) ==
  CHOOSE m \in 0 .. i : /\ m = 0 \/ sdp[m].kind = "m"
                        /\ \A k \in m + 1 .. i : sdp[k].kind # "m"

Mapped(sdp, m) ==
  \E k \in m + 1 .. Len(sdp) : sdp[k].kind = "rtpmap" /\ Section(sdp, k) = m

\* A codec is announced by an rtpmap; in an audio section without any, by the
\* static payload types of the media line.
Announced(sdp, media, i) ==
  LET m == Section(sdp, i)
  IN  IF m = 0 \/ sdp[m].media # media THEN <<>>
      ELSE IF sdp[i].kind = "rtpmap" THEN <<sdp[i].name>>
      ELSE IF i = m /\ media = "audio" /\ ~Mapped(sdp, m) THEN StaticNames(sdp[i].types)
      ELSE <<>>

AnnouncedBy(sdp, media) == AllOf([i \in 1 .. Len(sdp) |-> Announced(sdp, media, i)])

\* ParseCodecs finds what each section announces, in order, whatever the
\* sections before it left in its variables.
ParsedExactly(sdp) ==
  ParseCodecs(sdp) = [Video |-> AnnouncedBy(sdp, "video"), Audio |-> AnnouncedBy(sdp, "audio")]

\* A session uses the first codec of the published caps, and none only when
\* the caps have none: viewers choose by the caps.  First is as the camera
\* announces them, not as the supported codecs are listed.
UsesFirstPublished(sdp) ==
  LET info == ParseCodecs(sdp)
  IN  \A m \in {"Video", "Audio"} :
        codecs(info)[m] = IF caps(info)[m] = <<>> THEN "" ELSE caps(info)[m][1]
=============================================================================
