------------------------------- MODULE MCRtc -------------------------------
EXTENDS Rtc

\* The boundaries of what changeFreq_RTC accepts, and a frequency between.
MCFrequencies == {1, 2, 3, 1024, 2048}
=============================================================================
