--------------------------- MODULE MCFramePipeline ---------------------------
EXTENDS FramePipeline

\* Several clusters of several sizes; blocks the parser or the decoder
\* refuses; a content without blocks; elements that are no clusters.
MCContents ==
  {<<"cluster", "head", "data", "head", "data", "cue",
     "cluster", "head", "data", "cluster", "head", "data">>,
   <<"cluster", "head", "data", "head", "laced", "head", "data">>,
   <<"cluster", "head", "data", "head", "corrupt", "head", "data">>,
   <<"cue", "cluster">>,
   <<>>}
=============================================================================
