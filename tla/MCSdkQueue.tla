---- MODULE MCSdkQueue ----
EXTENDS SdkQueue
CONSTANTS timer
====
