-------------------------- MODULE MCRuntimeConfig --------------------------
(* Small instances of RuntimeConfig for TLC.                               *)
EXTENDS RuntimeConfig

CONSTANTS s1, s2, p1

\* One save of either BW setting with the password typed in, one re-save with
\* the marker the UI shows, one that switches the LLM on, one that switches it off.
Puts ==
    {[setting |-> s1,   secret |-> p1,     llm |-> Keep, persist |-> TRUE],
     [setting |-> s2,   secret |-> Marker, llm |-> Keep, persist |-> TRUE],
     [setting |-> s1,   secret |-> Marker, llm |-> Keep, persist |-> FALSE],
     [setting |-> Keep, secret |-> Marker, llm |-> p1,   persist |-> TRUE],
     [setting |-> Keep, secret |-> Marker, llm |-> None, persist |-> TRUE]}

FewPuts ==
    {[setting |-> s1,   secret |-> p1,     llm |-> Keep, persist |-> TRUE],
     [setting |-> s2,   secret |-> Marker, llm |-> Keep, persist |-> FALSE],
     [setting |-> Keep, secret |-> Marker, llm |-> Marker, persist |-> TRUE]}

EmptyEnv == NoFile
BwEnv    == [setting |-> s1, secret |-> p1, cookie |-> "none", llm |-> None]
FullEnv  == [setting |-> s1, secret |-> p1, cookie |-> "none", llm |-> p1]
MarkedEnv == [setting |-> s1, secret |-> Marker, cookie |-> "none", llm |-> Marker]

PlainStarts  == {EmptyEnv, BwEnv, FullEnv, MarkedEnv}
RaceStarts   == {BwEnv}
=============================================================================
