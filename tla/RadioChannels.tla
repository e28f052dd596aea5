---------------------------- MODULE RadioChannels ----------------------------
(***************************************************************************)
(* The channel tables of channels.py: which operator-facing channel        *)
(* numbers each band has, and the frequency in MHz a channel stands for.   *)
(***************************************************************************)
EXTENDS Integers

\* _TABLES' keys: the two bands validate_band and channel_to_freq accept.
Bands == {"2g", "5g"}

\* CHANNELS_2G: channels 1 to 13.
Channels2g == 1..13

\* _CHANNELS_5G: UNII-1, UNII-2, UNII-2e (every fourth channel) and UNII-3.
Channels5g == { c \in 36..64 : c % 4 = 0 }
              \cup { c \in 100..144 : c % 4 = 0 }
              \cup { c \in 149..165 : c % 4 = 1 }

\* The keys of the band's table; an unknown band has no table.
ChannelsOf(band) == CASE band = "2g" -> Channels2g
                      [] band = "5g" -> Channels5g
                      [] OTHER       -> {}

\* The value stored at a key of the band's table.
FreqOf(band, channel) == IF band = "2g" THEN 2412 + 5 * (channel - 1)
                                        ELSE 5000 + 5 * channel

\* channel_to_freq returns FreqOf exactly where Offered holds; everywhere else
\* it raises ValidationError.
Offered(band, channel) == channel \in ChannelsOf(band)
=============================================================================
