-------------------------- MODULE MCTelegramClient --------------------------
EXTENDS TelegramClient

\* As durations of 6 bits and 4 units a second: negative, 8, 24, one that overflows to
\* a negative, one that overflows to nothing and one to less than it is.
MCRetryAfters == {-1, 2, 6, 9, 16, 20}
=============================================================================
