------------------------------ MODULE MCConsumer ------------------------------
(***************************************************************************)
(* Instances of Consumer for TLC.                                          *)
(***************************************************************************)
EXTENDS Consumer, TLC

Uri(service, version, resource) ==
    [authority |-> "a", instance |-> 0, service |-> service,
     version |-> version, resource |-> resource]

MCTopic == Uri(1, 1, 32768)

\* A topic, and a URI that is none
MCTopics == {MCTopic, Uri(1, 1, 1)}

\* An entity, and one whose version no filter may have
MCEntities == {Uri(2, 1, 0), Uri(2, 0, 0)}

\* No options; a time before the epoch and a period that just fits; the next second
\* and a period that does not fit.
NoOptions == [when_expire |-> {}, subscription_details |-> {}, sample_period_ms |-> {}]
MCOptions ==
    {NoOptions,
     [NoOptions EXCEPT !.when_expire = {-1}, !.sample_period_ms = {UInt32Size - 1}],
     [NoOptions EXCEPT !.when_expire = {NANOSECONDS_PER_SECOND + 1},
                       !.sample_period_ms = {UInt32Size}]}

\* Nothing readable, the consumer's topic, another one
MCContents == {{}, {MCTopic}, {Uri(1, 1, 32769)}}

ThreadSymmetry == Permutations(Threads)

===============================================================================
