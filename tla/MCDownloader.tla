---------------------------- MODULE MCDownloader ----------------------------
(***************************************************************************)
(* Instances of Downloader for TLC.                                        *)
(***************************************************************************)
EXTENDS Downloader

Config(length, partSize, workers, retries, errors, closes, cancels, elsewhere) ==
    [Length |-> length, PartSize |-> partSize, Concurrency |-> workers,
     PartBodyMaxRetries |-> retries, MaxOverload |-> errors, MaxClose |-> closes,
     MaxCancel |-> cancels, MaxOthers |-> elsewhere]

\* One part; two parts for two workers that try again; two parts of several bytes,
\* the first one raised to half a part, for one worker; four parts for two workers,
\* where an empty part can fill the channel.
MCConfigs == {Config(1, 1, 2, 0, 1, 2, 1, 2), Config(3, 2, 2, 1, 1, 2, 1, 1),
              Config(5, 4, 1, 1, 1, 2, 1, 2), Config(4, 1, 2, 1, 1, 0, 0, 0)}

\* Three parts for two workers.
MCThreeParts == {Config(3, 1, 2, 0, 1, 0, 1, 2)}
=============================================================================
