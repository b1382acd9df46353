------------------------- MODULE MCVersionResolution -------------------------
(* An instance of VersionResolution for TLC: the spec moves from one version *)
(* to another one in another channel group; the other version is also        *)
(* published in the default group, where its cluster does not want it.       *)
EXTENDS VersionResolution, TLC

Rule(field, operator, value) == [field |-> field, operator |-> operator, value |-> value]

MCReleaseOf == << [version |-> "4.1", channelGroup |-> ""],
                  [version |-> "4.2-ec", channelGroup |-> "candidate"] >>

MCMinor == ("4.1" :> {"4.1"}) @@ ("4.2-ec" :> {"4.2"})

MCPublished ==
  {[version |-> "4.1", channel |-> <<"stable", "4.1">>],
   [version |-> "4.2-ec", channel |-> <<"stable", "4.2">>]}

MCUpcoming == {[version |-> "4.2-ec", channel |-> <<"candidate", "4.2">>]}

\* The rules of the two Helm charts, and one more for the consumer.
MCRules ==
  [resolver |-> {Rule(VersionPath, "exists", Scalar(""))},
   consumer |-> {Rule(ImagePath, "exists", Scalar("")),
                 Rule(VersionPath, "notin", ArrayOf({"4.0"}))}]
=============================================================================
