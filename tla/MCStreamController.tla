------------------------- MODULE MCStreamController -------------------------
(***************************************************************************)
(* A PAT of four entries, three channels: an ordinary television channel,  *)
(* a radio channel and one whose PMT lists audio before video.  For the    *)
(* runs in which a configured number is negative, one below -2.            *)
(***************************************************************************)
EXTENDS StreamController

MCStreams ==
  [c \in Channels |-> CASE c = 0 -> <<"video", "audio">>
                        [] c = 1 -> <<"audio">>
                        [] OTHER -> <<"audio", "text", "video">>]

MCWrapped == {0, -3}
=============================================================================
