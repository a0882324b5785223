------------------------ MODULE MCHandEventRecorder ------------------------
EXTENDS HandEventRecorder
=============================================================================
