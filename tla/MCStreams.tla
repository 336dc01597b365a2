------------------------------ MODULE MCStreams -------------------------------
\* Every provider and kind of answer; four lines where the order matters most.
EXTENDS Streams

Ask(p, kind, client, setting, include, lines) ==
    [p |-> p, kind |-> kind, client |-> client, setting |-> setting,
     include |-> include, lines |-> lines]

MCRequests ==
    {Ask("openai", "stream", "openai", "think", FALSE, 4),
     Ask("openai", "stream", "claude", "plain", FALSE, 4)}
    \cup {Ask("openai", "stream", "openai", s, TRUE, 3) : s \in {"plain", "force"}}
    \cup {Ask(p, "stream", "claude", "plain", FALSE, 3) : p \in {"claude", "aws"}}
    \cup {Ask(p, "stream", "openai", "plain", TRUE, 3) :
            p \in (Scanned \cup Channelled \cup Looped) \ {"openai"}}
    \cup {Ask(p, "whole", "openai", "plain", FALSE, 0) : p \in Answering}
    \cup {Ask(p, "pseudo", "openai", "plain", TRUE, 0) : p \in {"openai", "gemini"}}
=============================================================================
