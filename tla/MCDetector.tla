----------------------------- MODULE MCDetector -----------------------------
EXTENDS Detector, LoadingUniverse
=============================================================================
